---------------------------- MODULE Spec2Model ----------------------------
(***************************************************************************)
(* TMSITI backend: the authentication / authorization gate                 *)
(* (app/api/v1/auth.py, app/api/v1/user.py, app/services/auth_service.py), *)
(* the language negotiator, the localized field resolver and the           *)
(* localization helpers (app/middlewares/language.py), news creation       *)
(* (app/api/v1/news.py), uploads (app/services/utils.py), contact          *)
(* inquiries and the single-record resources (app/api/v1/contact.py,       *)
(* app/api/v1/activity.py).                                                *)
(*                                                                         *)
(* The specifications share the variables:                                 *)
(*   Spec       the users table, the issued tokens, the clock and the      *)
(*              last response of the auth / user API;                      *)
(*   SpecUsers  the users table under the routed requests alone;           *)
(*   SpecPerm   AuthService.verify_user_permissions beside the gate;       *)
(*   SpecLang   LanguageMiddleware.dispatch over one request at a time;    *)
(*   SpecSession  several requests, one of whose responses a client keeps; *)
(*   SpecContact  create_contact and update_contact;                       *)
(*   SpecSingle the anti-corruption and management-system records;         *)
(*   SpecField  get_localized_model_field, get_multilingual_dict and       *)
(*              get_localized_content over one entity;                     *)
(*   SpecHelper validate_multilingual_data and the phrase lookup;          *)
(*   SpecNews   create_news over the news table;                           *)
(*   SpecUpload upload_news_image over one news item and the uploads.      *)
(***************************************************************************)
EXTENDS Integers, Sequences, FiniteSets, TLC

VARIABLES
    users,      \* users table: id -> row (app/db/models/user.py)
    tokens,     \* the signed tokens issued so far (held by clients)
    now,        \* the clock, in minutes (datetime.utcnow())
    ticks,      \* how many times the clock advanced
    resp,       \* the last step's request and its response
    settings,   \* app.core.config.settings (languages part)
    request,    \* the request in LanguageMiddleware.dispatch
    lang_pc,    \* where dispatch stands: "idle", "call_next", "response", "sent"
    entity,     \* a localizable entity: attribute name -> value
    field_call, \* the last field resolver call and its result
    news,       \* news table: id -> row (app/db/models/news.py)
    files,      \* the paths that exist in static/uploads
    news_resp,  \* the last news request and its response
    localization_cache, \* LanguageMiddleware.localization_cache
    helper_call, \* the last localization helper call and its result
    served,     \* a response of an earlier request that a client kept
    contacts,   \* contacts table: id -> row (app/db/models/contact.py)
    anti_corruption,    \* anti_corruption table: id -> row
    management_systems, \* management_systems table: id -> row
    contact_resp \* the last contact / activity request and its response

auth_vars  == <<users, tokens, now, ticks, resp>>
lang_vars  == <<settings, request, lang_pc>>
field_vars == <<entity, field_call>>
news_vars  == <<news, files, news_resp>>
text_vars  == <<localization_cache, helper_call>>
site_vars  == <<served, contacts, anti_corruption, management_systems, contact_resp>>
vars       == <<users, tokens, now, ticks, resp, settings, request, lang_pc,
                entity, field_call, news, files, news_resp, localization_cache,
                helper_call, served, contacts, anti_corruption, management_systems,
                contact_resp>>

----------------------------------------------------------------------------
(* Bounds of the model *)

MaxUsers == 2

MaxTokens == 4

MaxTicks == 1

MaxEntries == 3

MaxTexts == 2

MaxNews == 1

MaxUuids == 2

MaxContacts == 1

MaxRecords == 2

----------------------------------------------------------------------------
(* Program constants *)

ACCESS_TOKEN_EXPIRE_MINUTES == 30

REFRESH_TOKEN_EXPIRE_DAYS == 7

HTTP_200_OK == 200

HTTP_400_BAD_REQUEST == 400

HTTP_401_UNAUTHORIZED == 401

HTTP_403_FORBIDDEN == 403

HTTP_404_NOT_FOUND == 404

HTTP_500_INTERNAL_SERVER_ERROR == 500

HTTP_413_REQUEST_ENTITY_TOO_LARGE == 413

\* FastAPI's answer to a body that fails the pydantic schema
HTTP_422_UNPROCESSABLE_ENTITY == 422

----------------------------------------------------------------------------
(* Inputs *)

UserIds == 1 .. MaxUsers

\* no row / no subject (Python None for an id)
NoId == 0

\* last_login is NULL
NoTime == -1

Usernames == {"admin", "bob"}

Emails == {"admin@tmsiti.uz", "bob@tmsiti.uz"}

Passwords == {"admin123", "pw"}

\* the password new accounts are created with
NewPasswords == {"pw"}

MinutesPerDay == 24 * 60

\* how far one step of the clock goes: one access lifetime or one refresh lifetime
TickSteps == {ACCESS_TOKEN_EXPIRE_MINUTES, REFRESH_TOKEN_EXPIRE_DAYS * MinutesPerDay}

----------------------------------------------------------------------------
(* Credential and token service (app/core/security.py) *)

\* the stored hash of a password: salted and one-way, so only its source matters
get_password_hash(password) == <<"hash", password>>

verify_password(plain_password, hashed_password) ==
    hashed_password = get_password_hash(plain_password)

\* a signed token: its claims, and whether the signature is the server's
Token(sub, type, exp, sig) == [sub |-> sub, type |-> type, exp |-> exp, sig |-> sig]

create_access_token(subject) ==
    Token(subject, "access", now + ACCESS_TOKEN_EXPIRE_MINUTES, TRUE)

create_refresh_token(subject) ==
    Token(subject, "refresh", now + REFRESH_TOKEN_EXPIRE_DAYS * MinutesPerDay, TRUE)

\* decode_token verifies signature and expiry; any failure reaches the caller as
\* the single Unauthorized outcome
decode_token(token) ==
    IF token.sig /\ now < token.exp
    THEN [ok |-> TRUE, sub |-> token.sub, type |-> token.type]
    ELSE [ok |-> FALSE, sub |-> NoId, type |-> "none"]

\* tokens a client can present: the issued ones, one whose signature does not
\* verify, and tokens signed with the server's key by something other than
\* create_access_token / create_refresh_token: without a subject, without a type
ForgedTokens == {Token(1, "access", now + ACCESS_TOKEN_EXPIRE_MINUTES, FALSE)}

ForeignTokens ==
    {Token(NoId, ty, now + ACCESS_TOKEN_EXPIRE_MINUTES, TRUE) :
        ty \in {"access", "refresh", "none"}}

\* the subject a request is signed for
Subject(token) == IF token.sig THEN token.sub ELSE NoId

Presentable == tokens \cup ForgedTokens \cup ForeignTokens

----------------------------------------------------------------------------
(* The users table *)

User(username, email, password, is_active, is_admin, is_moderator) ==
    [username |-> username, email |-> email,
     hashed_password |-> get_password_hash(password),
     is_active |-> is_active, is_admin |-> is_admin, is_moderator |-> is_moderator,
     last_login |-> NoTime]

\* db.query(User).filter(User.id == user_id).first()
query_by_id(user_id) == IF user_id \in DOMAIN users THEN user_id ELSE NoId

\* db.query(User).filter(User.username == username).first()
get_user_by_username(username) ==
    IF \E u \in DOMAIN users : users[u].username = username
    THEN CHOOSE u \in DOMAIN users : users[u].username = username
    ELSE NoId

\* db.query(User).filter(User.email == email).first()
query_by_email(email) ==
    IF \E u \in DOMAIN users : users[u].email = email
    THEN CHOOSE u \in DOMAIN users : users[u].email = email
    ELSE NoId

\* db.add(row); db.commit(): the row gets an unused id
Insert(id, row) == [u \in DOMAIN users \cup {id} |-> IF u = id THEN row ELSE users[u]]

\* what the last step was: the handler, the subject the request came with (the
\* bearer token's, or the owner of the login name), the status, and the principal
\* the handler returned, created or changed
Response(op, sub, status, uid) == [op |-> op, sub |-> sub, status |-> status, uid |-> uid]

----------------------------------------------------------------------------
(* Authorization gate (app/api/v1/auth.py) *)

Outcome(status, uid) == [status |-> status, uid |-> uid]

\* get_current_user without the is_active test
get_current_user_no_active_check(token) ==
    LET payload == decode_token(token)
        user_id == payload.sub
        user    == query_by_id(user_id)
    IN  IF ~payload.ok THEN Outcome(HTTP_401_UNAUTHORIZED, NoId)
        ELSE IF user_id = NoId THEN Outcome(HTTP_401_UNAUTHORIZED, NoId)
        ELSE IF user = NoId THEN Outcome(HTTP_401_UNAUTHORIZED, NoId)
        ELSE Outcome(HTTP_200_OK, user)

\* get_current_user without the test for a missing subject: int(None) raises
get_current_user_no_sub_check(token) ==
    LET payload == decode_token(token)
        user_id == payload.sub
        user    == query_by_id(user_id)
    IN  IF ~payload.ok THEN Outcome(HTTP_401_UNAUTHORIZED, NoId)
        ELSE IF user_id = NoId THEN Outcome(HTTP_500_INTERNAL_SERVER_ERROR, NoId)
        ELSE IF user = NoId \/ ~users[user].is_active
             THEN Outcome(HTTP_401_UNAUTHORIZED, NoId)
        ELSE Outcome(HTTP_200_OK, user)

get_current_user(token) ==
    LET payload == decode_token(token)
        user_id == payload.sub
        user    == query_by_id(user_id)
    IN  IF ~payload.ok THEN Outcome(HTTP_401_UNAUTHORIZED, NoId)
        ELSE IF user_id = NoId THEN Outcome(HTTP_401_UNAUTHORIZED, NoId)
        ELSE IF user = NoId \/ ~users[user].is_active
             THEN Outcome(HTTP_401_UNAUTHORIZED, NoId)
        ELSE Outcome(HTTP_200_OK, user)

\* get_admin_user with the role test made on the row before the active test
get_admin_user_role_first(token) ==
    LET payload == decode_token(token)
        user    == query_by_id(payload.sub)
    IN  IF ~payload.ok \/ payload.sub = NoId \/ user = NoId
        THEN Outcome(HTTP_401_UNAUTHORIZED, NoId)
        ELSE IF ~users[user].is_admin THEN Outcome(HTTP_403_FORBIDDEN, NoId)
        ELSE IF ~users[user].is_active THEN Outcome(HTTP_401_UNAUTHORIZED, NoId)
        ELSE Outcome(HTTP_200_OK, user)

get_admin_user(token) ==
    LET current_user == get_current_user(token)
    IN  IF current_user.status # HTTP_200_OK THEN current_user
        ELSE IF ~users[current_user.uid].is_admin
             THEN Outcome(HTTP_403_FORBIDDEN, NoId)
        ELSE current_user

\* get_moderator_user that asks for the moderator flag alone
get_moderator_user_flag_only(token) ==
    LET current_user == get_current_user(token)
    IN  IF current_user.status # HTTP_200_OK THEN current_user
        ELSE IF ~users[current_user.uid].is_moderator
             THEN Outcome(HTTP_403_FORBIDDEN, NoId)
        ELSE current_user

get_moderator_user(token) ==
    LET current_user == get_current_user(token)
    IN  IF current_user.status # HTTP_200_OK THEN current_user
        ELSE IF ~(users[current_user.uid].is_admin \/ users[current_user.uid].is_moderator)
             THEN Outcome(HTTP_403_FORBIDDEN, NoId)
        ELSE current_user

----------------------------------------------------------------------------
(* Request payloads *)

\* UserUpdate after .dict(exclude_unset=True): the fields the client set
UpdateFields == {"username", "email", "is_active"}

UserUpdates ==
    {[fields    |-> f,
      username  |-> IF "username" \in f THEN n ELSE "",
      email     |-> IF "email" \in f THEN e ELSE "",
      is_active |-> IF "is_active" \in f THEN a ELSE TRUE] :
        f \in SUBSET UpdateFields, n \in Usernames, e \in Emails, a \in BOOLEAN}

\* the updates that leave username and email alone
FlagUpdates == {d \in UserUpdates : d.fields \subseteq {"is_active"}}

\* for field, value in update_data.items(): setattr(user, field, value)
SetFields(row, update_data, settable) ==
    [row EXCEPT
        !.username  = IF "username" \in update_data.fields \cap settable
                      THEN update_data.username ELSE @,
        !.email     = IF "email" \in update_data.fields \cap settable
                      THEN update_data.email ELSE @,
        !.is_active = IF "is_active" \in update_data.fields \cap settable
                      THEN update_data.is_active ELSE @]

\* the id the table gives a new row (SQLite rowid: the largest id plus one)
NextId == IF DOMAIN users = {} THEN 1
          ELSE (CHOOSE m \in DOMAIN users : \A u \in DOMAIN users : u <= m) + 1

\* the tokens a successful login or refresh returns
TokenPair(user) == {create_access_token(user), create_refresh_token(user)}

AuthFrame ==
    UNCHANGED <<settings, request, lang_pc, entity, field_call, news_vars, text_vars,
                site_vars>>

----------------------------------------------------------------------------
(* Handlers of app/api/v1/auth.py *)

\* GET /me
get_current_user_info(token) ==
    LET r == get_current_user(token)
    IN  /\ resp' = Response("get_current_user", Subject(token), r.status, r.uid)
        /\ UNCHANGED <<users, tokens, now, ticks>>
        /\ AuthFrame

\* GET /dashboard (app/api/v1/admin.py): depends on get_admin_user, reads only
get_dashboard_stats(token) ==
    LET r == get_admin_user(token)
    IN  /\ resp' = Response("get_admin_user", Subject(token), r.status, r.uid)
        /\ UNCHANGED <<users, tokens, now, ticks>>
        /\ AuthFrame

\* GET /list (app/api/v1/user.py): depends on get_moderator_user, reads only
list_users(token) ==
    LET r == get_moderator_user(token)
    IN  /\ resp' = Response("get_moderator_user", Subject(token), r.status, r.uid)
        /\ UNCHANGED <<users, tokens, now, ticks>>
        /\ AuthFrame

\* register that makes the new principal a moderator
register_as_moderator(username, email, password) ==
    IF get_user_by_username(username) # NoId \/ query_by_email(email) # NoId
    THEN /\ resp' = Response("register", NoId, HTTP_400_BAD_REQUEST, NoId)
         /\ UNCHANGED <<users, tokens, now, ticks>>
         /\ AuthFrame
    ELSE /\ NextId \in UserIds
         /\ users' = Insert(NextId, User(username, email, password, TRUE, FALSE, TRUE))
         /\ resp' = Response("register", NoId, HTTP_200_OK, NextId)
         /\ UNCHANGED <<tokens, now, ticks>>
         /\ AuthFrame

register(username, email, password) ==
    IF get_user_by_username(username) # NoId \/ query_by_email(email) # NoId
    THEN /\ resp' = Response("register", NoId, HTTP_400_BAD_REQUEST, NoId)
         /\ UNCHANGED <<users, tokens, now, ticks>>
         /\ AuthFrame
    ELSE /\ NextId \in UserIds
         /\ users' = Insert(NextId, User(username, email, password, TRUE, FALSE, FALSE))
         /\ resp' = Response("register", NoId, HTTP_200_OK, NextId)
         /\ UNCHANGED <<tokens, now, ticks>>
         /\ AuthFrame

\* what a handler that may issue tokens returns: status, principal, token pair
Issue(status, uid, issued) == [status |-> status, uid |-> uid, issued |-> issued]

\* POST /login: the checks and the response
login(username, password) ==
    LET user == get_user_by_username(username)
    IN  IF user = NoId \/ ~verify_password(password, users[user].hashed_password)
        THEN Issue(HTTP_401_UNAUTHORIZED, NoId, {})
        ELSE IF ~users[user].is_active
        THEN Issue(HTTP_401_UNAUTHORIZED, NoId, {})
        ELSE Issue(HTTP_200_OK, user, TokenPair(user))

\* POST /login as a step: a successful login writes last_login
PostLogin(username, password) ==
    LET r == login(username, password)
    IN  /\ Cardinality(tokens \cup r.issued) <= MaxTokens
        /\ users' = IF r.status = HTTP_200_OK
                     THEN [users EXCEPT ![r.uid].last_login = now]
                     ELSE users
        /\ tokens' = tokens \cup r.issued
        /\ resp' = Response("login", get_user_by_username(username), r.status, r.uid)
        /\ UNCHANGED <<now, ticks>>
        /\ AuthFrame

\* refresh_token without the test of the type claim
refresh_token_any_type(token) ==
    LET payload == decode_token(token)
        user_id == payload.sub
        user    == query_by_id(user_id)
    IN  IF ~payload.ok THEN Issue(HTTP_401_UNAUTHORIZED, NoId, {})
        ELSE IF user_id = NoId THEN Issue(HTTP_500_INTERNAL_SERVER_ERROR, NoId, {})
        ELSE IF user = NoId \/ ~users[user].is_active
             THEN Issue(HTTP_401_UNAUTHORIZED, NoId, {})
        ELSE Issue(HTTP_200_OK, user, TokenPair(user))

\* POST /refresh: the checks and the response
refresh_token(token) ==
    LET payload == decode_token(token)
        user_id == payload.sub
        user    == query_by_id(user_id)
    IN  IF ~payload.ok THEN Issue(HTTP_401_UNAUTHORIZED, NoId, {})
        ELSE IF payload.type # "refresh" THEN Issue(HTTP_401_UNAUTHORIZED, NoId, {})
        \* int(None) raises TypeError: the request ends in a server error
        ELSE IF user_id = NoId THEN Issue(HTTP_500_INTERNAL_SERVER_ERROR, NoId, {})
        ELSE IF user = NoId \/ ~users[user].is_active
             THEN Issue(HTTP_401_UNAUTHORIZED, NoId, {})
        ELSE Issue(HTTP_200_OK, user, TokenPair(user))

\* POST /refresh as a step that stamps last_login the way login does
PostRefreshStampsLogin(token) ==
    LET r == refresh_token(token)
    IN  /\ Cardinality(tokens \cup r.issued) <= MaxTokens
        /\ users' = IF r.status = HTTP_200_OK
                     THEN [users EXCEPT ![r.uid].last_login = now]
                     ELSE users
        /\ tokens' = tokens \cup r.issued
        /\ resp' = Response("refresh_token", Subject(token), r.status, r.uid)
        /\ UNCHANGED <<now, ticks>>
        /\ AuthFrame

\* POST /refresh as a step: it writes nothing to the database
PostRefresh(token) ==
    LET r == refresh_token(token)
    IN  /\ Cardinality(tokens \cup r.issued) <= MaxTokens
        /\ tokens' = tokens \cup r.issued
        /\ resp' = Response("refresh_token", Subject(token), r.status, r.uid)
        /\ UNCHANGED <<users, now, ticks>>
        /\ AuthFrame

----------------------------------------------------------------------------
(* Handlers of app/api/v1/user.py *)

\* the uniqueness checks with the one for the email left out
TakenUsernameOnly(user, update_data) ==
    /\ "username" \in update_data.fields
    /\ update_data.username # users[user].username
    /\ get_user_by_username(update_data.username) # NoId

\* the uniqueness checks update_profile and update_user make before they write
Taken(user, update_data) ==
    \/ /\ "username" \in update_data.fields
       /\ update_data.username # users[user].username
       /\ get_user_by_username(update_data.username) # NoId
    \/ /\ "email" \in update_data.fields
       /\ update_data.email # users[user].email
       /\ query_by_email(update_data.email) # NoId

\* update_profile with the setattr loop of update_user: is_active is set too
update_profile_sets_all(token, user_update) ==
    LET current_user == get_current_user(token)
        user == current_user.uid
    IN  IF current_user.status # HTTP_200_OK
        THEN /\ resp' = Response("update_profile", Subject(token), current_user.status, NoId)
             /\ UNCHANGED <<users, tokens, now, ticks>>
             /\ AuthFrame
        ELSE IF Taken(user, user_update)
        THEN /\ resp' = Response("update_profile", Subject(token), HTTP_400_BAD_REQUEST, user)
             /\ UNCHANGED <<users, tokens, now, ticks>>
             /\ AuthFrame
        ELSE /\ users' = [users EXCEPT ![user] = SetFields(@, user_update, UpdateFields)]
             /\ resp' = Response("update_profile", Subject(token), HTTP_200_OK, user)
             /\ UNCHANGED <<tokens, now, ticks>>
             /\ AuthFrame

update_profile(token, user_update) ==
    LET current_user == get_current_user(token)
        user == current_user.uid
    IN  IF current_user.status # HTTP_200_OK
        THEN /\ resp' = Response("update_profile", Subject(token), current_user.status, NoId)
             /\ UNCHANGED <<users, tokens, now, ticks>>
             /\ AuthFrame
        ELSE IF Taken(user, user_update)
        THEN /\ resp' = Response("update_profile", Subject(token), HTTP_400_BAD_REQUEST, user)
             /\ UNCHANGED <<users, tokens, now, ticks>>
             /\ AuthFrame
        ELSE /\ users' = [users EXCEPT ![user] =
                              SetFields(@, user_update, UpdateFields \ {"is_active"})]
             /\ resp' = Response("update_profile", Subject(token), HTTP_200_OK, user)
             /\ UNCHANGED <<tokens, now, ticks>>
             /\ AuthFrame

update_user(token, user_id, user_update) ==
    LET current_user == get_admin_user(token)
        user == query_by_id(user_id)
    IN  IF current_user.status # HTTP_200_OK
        THEN /\ resp' = Response("update_user", Subject(token), current_user.status, NoId)
             /\ UNCHANGED <<users, tokens, now, ticks>>
             /\ AuthFrame
        ELSE IF user = NoId
        THEN /\ resp' = Response("update_user", Subject(token), HTTP_404_NOT_FOUND, NoId)
             /\ UNCHANGED <<users, tokens, now, ticks>>
             /\ AuthFrame
        ELSE IF Taken(user, user_update)
        THEN /\ resp' = Response("update_user", Subject(token), HTTP_400_BAD_REQUEST, user)
             /\ UNCHANGED <<users, tokens, now, ticks>>
             /\ AuthFrame
        ELSE /\ users' = [users EXCEPT ![user] = SetFields(@, user_update, UpdateFields)]
             /\ resp' = Response("update_user", Subject(token), HTTP_200_OK, user)
             /\ UNCHANGED <<tokens, now, ticks>>
             /\ AuthFrame

create_moderator(token, username, email, password) ==
    LET current_user == get_admin_user(token)
    IN  IF current_user.status # HTTP_200_OK
        THEN /\ resp' = Response("create_moderator", Subject(token), current_user.status, NoId)
             /\ UNCHANGED <<users, tokens, now, ticks>>
             /\ AuthFrame
        ELSE IF get_user_by_username(username) # NoId \/ query_by_email(email) # NoId
        THEN /\ resp' = Response("create_moderator", Subject(token), HTTP_400_BAD_REQUEST, NoId)
             /\ UNCHANGED <<users, tokens, now, ticks>>
             /\ AuthFrame
        ELSE /\ NextId \in UserIds
             /\ users' = Insert(NextId, User(username, email, password, TRUE, FALSE, TRUE))
             /\ resp' = Response("create_moderator", Subject(token), HTTP_200_OK, NextId)
             /\ UNCHANGED <<tokens, now, ticks>>
             /\ AuthFrame

\* delete_user without the test for the caller's own id
delete_user_no_self_check(token, user_id) ==
    LET current_user == get_admin_user(token)
        user == query_by_id(user_id)
    IN  IF current_user.status # HTTP_200_OK
        THEN /\ resp' = Response("delete_user", Subject(token), current_user.status, NoId)
             /\ UNCHANGED <<users, tokens, now, ticks>>
             /\ AuthFrame
        ELSE IF user = NoId
        THEN /\ resp' = Response("delete_user", Subject(token), HTTP_404_NOT_FOUND, NoId)
             /\ UNCHANGED <<users, tokens, now, ticks>>
             /\ AuthFrame
        ELSE /\ users' = [u \in DOMAIN users \ {user} |-> users[u]]
             /\ resp' = Response("delete_user", Subject(token), HTTP_200_OK, user)
             /\ UNCHANGED <<tokens, now, ticks>>
             /\ AuthFrame

delete_user(token, user_id) ==
    LET current_user == get_admin_user(token)
        user == query_by_id(user_id)
    IN  IF current_user.status # HTTP_200_OK
        THEN /\ resp' = Response("delete_user", Subject(token), current_user.status, NoId)
             /\ UNCHANGED <<users, tokens, now, ticks>>
             /\ AuthFrame
        ELSE IF user = NoId
        THEN /\ resp' = Response("delete_user", Subject(token), HTTP_404_NOT_FOUND, NoId)
             /\ UNCHANGED <<users, tokens, now, ticks>>
             /\ AuthFrame
        ELSE IF user = current_user.uid
        THEN /\ resp' = Response("delete_user", Subject(token), HTTP_400_BAD_REQUEST, user)
             /\ UNCHANGED <<users, tokens, now, ticks>>
             /\ AuthFrame
        ELSE /\ users' = [u \in DOMAIN users \ {user} |-> users[u]]
             /\ resp' = Response("delete_user", Subject(token), HTTP_200_OK, user)
             /\ UNCHANGED <<tokens, now, ticks>>
             /\ AuthFrame

----------------------------------------------------------------------------
(* AuthService (app/services/auth_service.py) *)

ServiceCall(op, user) == Response(op, NoId, HTTP_200_OK, user)

deactivate_user(user) ==
    /\ users' = [users EXCEPT ![user].is_active = FALSE]
    /\ resp' = ServiceCall("deactivate_user", user)
    /\ UNCHANGED <<tokens, now, ticks>>
    /\ AuthFrame

activate_user(user) ==
    /\ users' = [users EXCEPT ![user].is_active = TRUE]
    /\ resp' = ServiceCall("activate_user", user)
    /\ UNCHANGED <<tokens, now, ticks>>
    /\ AuthFrame

promote_to_moderator(user) ==
    /\ users' = [users EXCEPT ![user].is_moderator = TRUE]
    /\ resp' = ServiceCall("promote_to_moderator", user)
    /\ UNCHANGED <<tokens, now, ticks>>
    /\ AuthFrame

demote_from_moderator(user) ==
    /\ users' = [users EXCEPT ![user].is_moderator = FALSE]
    /\ resp' = ServiceCall("demote_from_moderator", user)
    /\ UNCHANGED <<tokens, now, ticks>>
    /\ AuthFrame

\* verify_user_permissions that asks for the moderator flag alone
verify_user_permissions_flag_only(user, required_role) ==
    IF ~user.is_active THEN FALSE
    ELSE IF required_role = "admin" THEN user.is_admin
    ELSE IF required_role = "moderator" THEN user.is_moderator
    ELSE IF required_role = "user" THEN TRUE
    ELSE FALSE

\* AuthService.verify_user_permissions
verify_user_permissions(user, required_role) ==
    IF ~user.is_active THEN FALSE
    ELSE IF required_role = "admin" THEN user.is_admin
    ELSE IF required_role = "moderator" THEN user.is_admin \/ user.is_moderator
    ELSE IF required_role = "user" THEN TRUE
    ELSE FALSE

----------------------------------------------------------------------------
(* The clock *)

NoResponse == Response("none", NoId, HTTP_200_OK, NoId)

Tick(d) ==
    /\ ticks < MaxTicks
    /\ now' = now + d
    /\ ticks' = ticks + 1
    /\ resp' = NoResponse
    /\ UNCHANGED <<users, tokens>>
    /\ AuthFrame

----------------------------------------------------------------------------
(* The state after create_tables.py: the tables exist and hold the admin user *)

create_admin_user == User("admin", "admin@tmsiti.uz", "admin123", TRUE, TRUE, FALSE)

\* settings as app/core/config.py sets them
DefaultSettings ==
    [supported_languages |-> <<"uz", "ru", "en">>, default_language |-> "uz"]

\* a mapping without keys: no query parameters, no headers
EmptyMapping == [k \in {} |-> ""]

\* not set yet (request.state.language, the Content-Language header)
Unset == ""

LangIdle == [query_params |-> EmptyMapping, headers |-> EmptyMapping,
             detected_language |-> Unset, state_language |-> Unset,
             content_language |-> Unset]

NoFieldCall == [field_prefix |-> "", language |-> "", result |-> ""]

\* no news request handled yet
NoNewsResponse ==
    [op |-> "none", status |-> HTTP_200_OK, detail |-> "", news_id |-> NoId,
     news_data |-> EmptyMapping, touched |-> FALSE]

\* an empty news table and an empty upload directory
NoNews ==
    /\ news = EmptyMapping
    /\ files = {}
    /\ news_resp = NoNewsResponse

\* no helper called yet
NoHelperCall == [op |-> "none", args |-> <<>>, result |-> <<>>]

\* no phrase table loaded, no helper called yet
NoHelperCalls ==
    /\ localization_cache = EmptyMapping
    /\ helper_call = NoHelperCall

\* no response kept by a client yet
NoneServed == [query_params |-> EmptyMapping, headers |-> EmptyMapping, language |-> Unset]

\* no contact / activity request handled yet
NoContactResponse ==
    [op |-> "none", status |-> HTTP_200_OK, id |-> NoId, update_data |-> EmptyMapping]

\* empty contact, anti-corruption and management-system tables
NoSite ==
    /\ served = NoneServed
    /\ contacts = EmptyMapping
    /\ anti_corruption = EmptyMapping
    /\ management_systems = EmptyMapping
    /\ contact_resp = NoContactResponse

Init ==
    /\ users = (1 :> create_admin_user)
    /\ tokens = {}
    /\ now = 0
    /\ ticks = 0
    /\ resp = NoResponse
    /\ settings = DefaultSettings
    /\ request = LangIdle
    /\ lang_pc = "idle"
    /\ entity = EmptyMapping
    /\ field_call = NoFieldCall
    /\ NoNews
    /\ NoHelperCalls
    /\ NoSite

Next ==
    \/ \E t \in Presentable : get_current_user_info(t)
    \/ \E t \in Presentable : get_dashboard_stats(t)
    \/ \E t \in Presentable : list_users(t)
    \/ \E n \in Usernames, e \in Emails, p \in NewPasswords : register(n, e, p)
    \/ \E n \in Usernames, p \in Passwords : PostLogin(n, p)
    \/ \E t \in Presentable : PostRefresh(t)
    \/ \E t \in tokens, d \in FlagUpdates : update_profile(t, d)
    \/ \E t \in tokens, u \in UserIds, d \in FlagUpdates : update_user(t, u, d)
    \/ \E t \in tokens, n \in Usernames, e \in Emails, p \in NewPasswords :
          create_moderator(t, n, e, p)
    \/ \E t \in tokens, u \in UserIds : delete_user(t, u)
    \/ \E u \in DOMAIN users : deactivate_user(u)
    \/ \E u \in DOMAIN users : activate_user(u)
    \/ \E u \in DOMAIN users : promote_to_moderator(u)
    \/ \E u \in DOMAIN users : demote_from_moderator(u)
    \/ \E d \in TickSteps : Tick(d)

Spec == Init /\ [][Next]_vars

\* the requests that reach the users table through the routers of main.py alone,
\* with every UserUpdate body: no AuthService call, no clock
NextUsers ==
    \/ \E n \in Usernames, e \in Emails, p \in NewPasswords : register(n, e, p)
    \/ \E n \in Usernames, p \in Passwords : PostLogin(n, p)
    \/ \E t \in tokens, d \in UserUpdates : update_profile(t, d)
    \/ \E t \in tokens, u \in UserIds, d \in UserUpdates : update_user(t, u, d)
    \/ \E t \in tokens, n \in Usernames, e \in Emails, p \in NewPasswords :
          create_moderator(t, n, e, p)
    \/ \E t \in tokens, u \in UserIds : delete_user(t, u)

SpecUsers == Init /\ [][NextUsers]_vars

\* role names a caller may ask verify_user_permissions for
RoleNames == {"admin", "moderator", "user", "Admin", "superuser", ""}

\* two principals with every combination of the three flags
Principals ==
    {(1 :> User("admin", "admin@tmsiti.uz", "admin123", a[1], a[2], a[3]))
        @@ (2 :> User("bob", "bob@tmsiti.uz", "pw", b[1], b[2], b[3])) :
        a \in [1 .. 3 -> BOOLEAN], b \in [1 .. 3 -> BOOLEAN]}

\* a caller asks AuthService whether a principal has a role
VerifyPermissions(user, required_role) ==
    /\ helper_call' = [op |-> "verify_user_permissions",
                       args |-> [user |-> user, required_role |-> required_role],
                       result |-> verify_user_permissions(users[user], required_role)]
    /\ UNCHANGED <<users, tokens, now, ticks, resp, lang_vars, field_vars, news_vars,
                   localization_cache, site_vars>>

InitPerm ==
    /\ users \in Principals
    /\ now = 0
    /\ tokens = {create_access_token(u) : u \in {1, 2}}
    /\ ticks = 0
    /\ resp = NoResponse
    /\ settings = DefaultSettings
    /\ request = LangIdle
    /\ lang_pc = "idle"
    /\ entity = EmptyMapping
    /\ field_call = NoFieldCall
    /\ NoNews
    /\ NoHelperCalls
    /\ NoSite

\* the gate and the service asked about the same principals
NextPerm ==
    \/ \E t \in tokens : get_current_user_info(t)
    \/ \E t \in tokens : get_dashboard_stats(t)
    \/ \E t \in tokens : list_users(t)
    \/ \E u \in DOMAIN users, r \in RoleNames : VerifyPermissions(u, r)

SpecPerm == InitPerm /\ [][NextPerm]_vars


----------------------------------------------------------------------------
(* Python string operations used by app/middlewares/language.py *)

Char(s, i) == SubSeq(s, i, i)

\* the first index of character c in s, 0 when there is none: c in s, s.find(c)
RECURSIVE FindFrom(_, _, _)
FindFrom(s, c, i) ==
    IF i > Len(s) THEN 0
    ELSE IF Char(s, i) = c THEN i
    ELSE FindFrom(s, c, i + 1)

Find(s, c) == FindFrom(s, c, 1)

\* s.split(sep)
RECURSIVE Split(_, _)
Split(s, sep) ==
    LET k == Find(s, sep)
    IN  IF k = 0 THEN <<s>>
        ELSE <<SubSeq(s, 1, k - 1)>> \o Split(SubSeq(s, k + 1, Len(s)), sep)

\* s.split(sep, 1) for an s that contains sep
SplitOnce(s, sep) ==
    LET k == Find(s, sep)
    IN  <<SubSeq(s, 1, k - 1), SubSeq(s, k + 1, Len(s))>>

Whitespace == {" "}

\* s.strip()
RECURSIVE LStrip(_)
LStrip(s) ==
    IF s # "" /\ Char(s, 1) \in Whitespace THEN LStrip(SubSeq(s, 2, Len(s))) ELSE s

RECURSIVE RStrip(_)
RStrip(s) ==
    IF s # "" /\ Char(s, Len(s)) \in Whitespace THEN RStrip(SubSeq(s, 1, Len(s) - 1)) ELSE s

Strip(s) == RStrip(LStrip(s))

UpperCase == "ABCDEFGHIJKLMNOPQRSTUVWXYZ"

LowerCase == "abcdefghijklmnopqrstuvwxyz"

UpperChars == {Char(UpperCase, i) : i \in 1 .. Len(UpperCase)}

\* s.lower()
RECURSIVE Lower(_)
Lower(s) ==
    IF s = "" THEN ""
    ELSE LET c == Char(s, 1)
         IN  (IF c \in UpperChars THEN Char(LowerCase, Find(UpperCase, c)) ELSE c)
                 \o Lower(SubSeq(s, 2, Len(s)))

DecimalDigits == "0123456789"

DigitChars == {Char(DecimalDigits, i) : i \in 1 .. Len(DecimalDigits)}

IsDigits(s) == s # "" /\ \A i \in 1 .. Len(s) : Char(s, i) \in DigitChars

RECURSIVE DigitsValue(_)
DigitsValue(s) ==
    IF s = "" THEN 0
    ELSE DigitsValue(SubSeq(s, 1, Len(s) - 1)) * 10 + (Find(DecimalDigits, Char(s, Len(s))) - 1)

\* float(s) for unsigned decimal literals with at most three fraction digits,
\* in thousandths; anything else among the modelled inputs raises ValueError
FloatValue(s) ==
    LET t == Strip(s)
        k == Find(t, ".")
        whole == IF k = 0 THEN t ELSE SubSeq(t, 1, k - 1)
        frac  == IF k = 0 THEN "" ELSE SubSeq(t, k + 1, Len(t))
        ok == /\ whole = "" \/ IsDigits(whole)
              /\ frac = "" \/ (IsDigits(frac) /\ Len(frac) <= 3)
              /\ whole # "" \/ frac # ""
    IN  IF ok
        THEN [ok |-> TRUE,
              value |-> DigitsValue(whole) * 1000 + DigitsValue(SubSeq(frac \o "000", 1, 3))]
        ELSE [ok |-> FALSE, value |-> 0]

\* 1.0 in thousandths
DefaultQuality == 1000

\* x in list
InList(x, list) == \E i \in 1 .. Len(list) : list[i] = x

\* mapping.get(key, default)
Get(mapping, key, default) == IF key \in DOMAIN mapping THEN mapping[key] ELSE default

----------------------------------------------------------------------------
(* LanguageMiddleware (app/middlewares/language.py) *)

\* the loop body without strip, lower and the cut at '-'
ParseTagVerbatim(lang_tag) ==
    LET has_q == Find(lang_tag, ";") # 0
        parts == IF has_q THEN SplitOnce(lang_tag, ";") ELSE <<lang_tag, "">>
        q_parts == Split(parts[2], "=")
        q == FloatValue(q_parts[2])
        quality_value ==
            IF ~has_q THEN DefaultQuality
            ELSE IF Len(q_parts) < 2 THEN DefaultQuality
            ELSE IF ~q.ok THEN DefaultQuality
            ELSE q.value
    IN  [lang |-> parts[1], quality |-> quality_value]

\* one element of accept_language.split(','): the (lang, quality_value) it yields
ParseTag(lang_tag) ==
    LET has_q == Find(lang_tag, ";") # 0
        parts == IF has_q THEN SplitOnce(lang_tag, ";") ELSE <<lang_tag, "">>
        q_parts == Split(parts[2], "=")
        q == FloatValue(q_parts[2])
        quality_value ==
            IF ~has_q THEN DefaultQuality
            ELSE IF Len(q_parts) < 2 THEN DefaultQuality    \* IndexError
            ELSE IF ~q.ok THEN DefaultQuality               \* ValueError
            ELSE q.value
        lang == Lower(Strip(parts[1]))
        code == IF Find(lang, "-") # 0 THEN Split(lang, "-")[1] ELSE lang
    IN  [lang |-> code, quality |-> quality_value]

\* the loop over the tags: the supported ones, in header order
RECURSIVE SupportedTags(_, _)
SupportedTags(tags, supported_languages) ==
    IF tags = <<>> THEN <<>>
    ELSE LET e == ParseTag(Head(tags))
         IN  (IF InList(e.lang, supported_languages) THEN <<e>> ELSE <<>>)
                 \o SupportedTags(Tail(tags), supported_languages)

\* list.sort(key=quality, reverse=True): stable, so equal keys keep their order
RECURSIVE InsertByQualityUnstable(_, _)
InsertByQualityUnstable(sorted, e) ==
    IF sorted = <<>> THEN <<e>>
    ELSE IF Head(sorted).quality > e.quality
         THEN <<Head(sorted)>> \o InsertByQualityUnstable(Tail(sorted), e)
         ELSE <<e>> \o sorted

RECURSIVE InsertByQuality(_, _)
InsertByQuality(sorted, e) ==
    IF sorted = <<>> THEN <<e>>
    ELSE IF Head(sorted).quality >= e.quality
         THEN <<Head(sorted)>> \o InsertByQuality(Tail(sorted), e)
         ELSE <<e>> \o sorted

RECURSIVE SortByQuality(_)
SortByQuality(languages) ==
    IF languages = <<>> THEN <<>>
    ELSE InsertByQuality(SortByQuality(SubSeq(languages, 1, Len(languages) - 1)),
                         languages[Len(languages)])

\* the function with the header read before the lang parameter
_detect_language_header_first(query_params, headers) ==
    LET accept_language == Get(headers, "Accept-Language", "")
        languages == SortByQuality(
            SupportedTags(Split(accept_language, ","), settings.supported_languages))
    IN  IF languages # <<>> THEN languages[1].lang
        ELSE IF /\ "lang" \in DOMAIN query_params
                /\ query_params["lang"] # ""
                /\ InList(query_params["lang"], settings.supported_languages)
             THEN query_params["lang"]
        ELSE settings.default_language

\* the function, but one that falls back to the first supported language
_detect_language_first_supported(query_params, headers) ==
    LET accept_language == Get(headers, "Accept-Language", "")
        languages == SortByQuality(
            SupportedTags(Split(accept_language, ","), settings.supported_languages))
    IN  IF /\ "lang" \in DOMAIN query_params
           /\ query_params["lang"] # ""
           /\ InList(query_params["lang"], settings.supported_languages)
        THEN query_params["lang"]
        ELSE IF languages # <<>> THEN languages[1].lang
        ELSE settings.supported_languages[1]

\* the function, but one that takes any non-empty lang parameter
_detect_language_any_param(query_params, headers) ==
    LET accept_language == Get(headers, "Accept-Language", "")
        languages == SortByQuality(
            SupportedTags(Split(accept_language, ","), settings.supported_languages))
    IN  IF "lang" \in DOMAIN query_params /\ query_params["lang"] # ""
        THEN query_params["lang"]
        ELSE IF languages # <<>> THEN languages[1].lang
        ELSE settings.default_language

\* LanguageMiddleware._detect_language
_detect_language(query_params, headers) ==
    LET accept_language == Get(headers, "Accept-Language", "")
        languages == SortByQuality(
            SupportedTags(Split(accept_language, ","), settings.supported_languages))
    IN  IF /\ "lang" \in DOMAIN query_params
           /\ query_params["lang"] # ""
           /\ InList(query_params["lang"], settings.supported_languages)
        THEN query_params["lang"]
        ELSE IF languages # <<>> THEN languages[1].lang
        ELSE settings.default_language

----------------------------------------------------------------------------
(* Requests through LanguageMiddleware.dispatch *)

\* settings the process may start with (the languages come from the environment)
Configs ==
    {DefaultSettings,
     [supported_languages |-> <<"en", "uz">>, default_language |-> "uz"],
     [supported_languages |-> <<"ru", "en">>, default_language |-> "uz"]}

\* values of the lang query parameter
LangParams == {"", "en", "ru", "fr", "RU"}

QueryParams == {EmptyMapping} \cup {("lang" :> v) : v \in LangParams}

\* elements of an Accept-Language header, as the client wrote them
HeaderTags ==
    {" ru;q=0.9", " xx;q=1.0", "uz;q=0.5", "en-US;q=0.9", " EN ", "ru;q=abc"}

\* ",".join(tags)
RECURSIVE Join(_)
Join(tags) ==
    IF tags = <<>> THEN ""
    ELSE IF Len(tags) = 1 THEN tags[1]
    ELSE tags[1] \o "," \o Join(Tail(tags))

HeaderValues ==
    {Join(tags) : tags \in UNION {[1 .. n -> HeaderTags] : n \in 0 .. MaxEntries}}

Headers == {EmptyMapping} \cup {("Accept-Language" :> h) : h \in HeaderValues}

LangFrame ==
    UNCHANGED <<users, tokens, now, ticks, resp, settings, entity, field_call, news_vars,
                text_vars, site_vars>>

\* dispatch that also makes the detected language the configured default
dispatch_sets_default(query_params, headers) ==
    /\ lang_pc = "idle"
    /\ LET detected_language == _detect_language(query_params, headers)
       IN  /\ request' = [query_params |-> query_params, headers |-> headers,
                          detected_language |-> detected_language,
                          state_language |-> detected_language,
                          content_language |-> Unset]
           /\ settings' = [settings EXCEPT !.default_language = detected_language]
    /\ lang_pc' = "call_next"
    /\ UNCHANGED <<users, tokens, now, ticks, resp, entity, field_call, news_vars,
                   text_vars, site_vars>>

\* dispatch up to call_next: detect the language, attach it to request.state
dispatch(query_params, headers) ==
    /\ lang_pc = "idle"
    /\ LET detected_language == _detect_language(query_params, headers)
       IN  request' = [query_params |-> query_params, headers |-> headers,
                       detected_language |-> detected_language,
                       state_language |-> detected_language,
                       content_language |-> Unset]
    /\ lang_pc' = "call_next"
    /\ LangFrame

\* await call_next(request): the handler runs; no handler writes request.state
call_next ==
    /\ lang_pc = "call_next"
    /\ lang_pc' = "response"
    /\ UNCHANGED request
    /\ LangFrame

\* await call_next(request) when the handler ends in an exception no handler
\* turns into a response: it leaves dispatch, and no header is written
call_next_raises ==
    /\ lang_pc = "call_next"
    /\ lang_pc' = "sent"
    /\ UNCHANGED request
    /\ LangFrame

\* dispatch after call_next, writing the configured default into the header
dispatch_response_default ==
    /\ lang_pc = "response"
    /\ request' = [request EXCEPT !.content_language = settings.default_language]
    /\ lang_pc' = "sent"
    /\ LangFrame

\* dispatch after call_next: the Content-Language header
dispatch_response ==
    /\ lang_pc = "response"
    /\ request' = [request EXCEPT !.content_language = request.detected_language]
    /\ lang_pc' = "sent"
    /\ LangFrame

\* the response is sent; the middleware waits for the next request
NextRequest ==
    /\ lang_pc = "sent"
    /\ request' = LangIdle
    /\ lang_pc' = "idle"
    /\ LangFrame

InitLang ==
    /\ users = (1 :> create_admin_user)
    /\ tokens = {}
    /\ now = 0
    /\ ticks = 0
    /\ resp = NoResponse
    /\ settings \in Configs
    /\ request = LangIdle
    /\ lang_pc = "idle"
    /\ entity = EmptyMapping
    /\ field_call = NoFieldCall
    /\ NoNews
    /\ NoHelperCalls
    /\ NoSite

NextLang ==
    \/ lang_pc = "idle" /\ \E q \in QueryParams, h \in Headers : dispatch(q, h)
    \/ call_next
    \/ call_next_raises
    \/ dispatch_response
    \/ NextRequest

SpecLang == InitLang /\ [][NextLang]_vars

\* headers of at most one element, for the runs that follow several requests
SessionHeaders ==
    {EmptyMapping} \cup {("Accept-Language" :> h) : h \in {""} \cup HeaderTags}

\* a client keeps what one of its requests was answered with: the request's
\* lang parameter and header, and the language it was served in
KeepResponse ==
    /\ lang_pc = "sent"
    /\ served = NoneServed
    /\ served' = [query_params |-> request.query_params, headers |-> request.headers,
                  language |-> request.state_language]
    /\ UNCHANGED <<users, tokens, now, ticks, resp, settings, request, lang_pc, entity,
                   field_call, news_vars, text_vars, contacts, anti_corruption,
                   management_systems, contact_resp>>

\* one request after the other through the same middleware instance
NextSession ==
    \/ lang_pc = "idle" /\ \E q \in QueryParams, h \in SessionHeaders : dispatch(q, h)
    \/ call_next
    \/ call_next_raises
    \/ dispatch_response
    \/ KeepResponse
    \/ NextRequest

SpecSession == InitLang /\ [][NextSession]_vars

----------------------------------------------------------------------------
(* Localized model fields (app/middlewares/language.py) *)

\* Python's None; no stored text equals it
None == "<None>"

\* getattr(obj, name, default)
getattr(obj, name, default) == IF name \in DOMAIN obj THEN obj[name] ELSE default

\* if value: neither None nor the empty string
Truthy(value) == value # None /\ value # ""

\* f"{field_prefix}_{language}"
FieldName(field_prefix, language) == field_prefix \o "_" \o language

\* the fallback loop, walking the list from its last language to its first
RECURSIVE FallbackFromReversed(_, _, _, _)
FallbackFromReversed(obj, field_prefix, language, i) ==
    LET n == Len(settings.supported_languages)
    IN  IF i > n THEN ""
        ELSE LET fallback_lang == settings.supported_languages[n + 1 - i]
                 fallback_value == getattr(obj, FieldName(field_prefix, fallback_lang), None)
             IN  IF fallback_lang # language /\ Truthy(fallback_value) THEN fallback_value
                 ELSE FallbackFromReversed(obj, field_prefix, language, i + 1)

\* the fallback loop, ending with the field name where the code ends with ""
RECURSIVE FallbackFromPlaceholder(_, _, _, _)
FallbackFromPlaceholder(obj, field_prefix, language, i) ==
    IF i > Len(settings.supported_languages) THEN FieldName(field_prefix, language)
    ELSE LET fallback_lang == settings.supported_languages[i]
             fallback_value == getattr(obj, FieldName(field_prefix, fallback_lang), None)
         IN  IF fallback_lang # language /\ Truthy(fallback_value) THEN fallback_value
             ELSE FallbackFromPlaceholder(obj, field_prefix, language, i + 1)

\* the fallback loop of get_localized_model_field from position i of
\* settings.supported_languages
RECURSIVE FallbackFrom(_, _, _, _)
FallbackFrom(obj, field_prefix, language, i) ==
    IF i > Len(settings.supported_languages) THEN ""
    ELSE LET fallback_lang == settings.supported_languages[i]
             fallback_value == getattr(obj, FieldName(field_prefix, fallback_lang), None)
         IN  IF fallback_lang # language /\ Truthy(fallback_value) THEN fallback_value
             ELSE FallbackFrom(obj, field_prefix, language, i + 1)

\* the function with the fallback loop run before the exact match
get_localized_model_field_fallback_first(obj, field_prefix, language) ==
    LET value == getattr(obj, FieldName(field_prefix, language), None)
        fallback == FallbackFrom(obj, field_prefix, language, 1)
    IN  IF fallback # "" THEN fallback
        ELSE IF Truthy(value) THEN value
        ELSE ""

\* get_localized_model_field
get_localized_model_field(obj, field_prefix, language) ==
    LET value == getattr(obj, FieldName(field_prefix, language), None)
    IN  IF Truthy(value) THEN value
        ELSE FallbackFrom(obj, field_prefix, language, 1)

\* get_multilingual_dict with each language resolved through the fallback
get_multilingual_dict_with_fallback(obj, field_prefix) ==
    [lang \in {settings.supported_languages[i] : i \in DOMAIN settings.supported_languages} |->
        get_localized_model_field(obj, field_prefix, lang)]

\* LocalizationHelper.get_multilingual_dict
get_multilingual_dict(obj, field_prefix) ==
    [lang \in {settings.supported_languages[i] : i \in DOMAIN settings.supported_languages} |->
        getattr(obj, FieldName(field_prefix, lang), "")]

----------------------------------------------------------------------------
(* Entities and resolver calls *)

\* the texts an entity may hold
AllTexts == <<"X", "Y", "Z", "W">>

Texts == {AllTexts[i] : i \in 1 .. MaxTexts}

\* what a language column may hold: nothing, the empty string, or a text
ColumnValues == {None, ""} \cup Texts

\* the language columns of the content field of the entity models
ContentColumns == {FieldName("content", l) : l \in {"uz", "ru", "en"}}

\* the entities: any subset of the columns present, any value in each
Entities == UNION {[cols -> ColumnValues] : cols \in SUBSET ContentColumns}

FieldPrefixes == {"content", "title"}

\* the languages a caller asks for: the three of the configuration and one more
RequestedLanguages == {"uz", "ru", "en", "fr"}

FieldFrame ==
    UNCHANGED <<users, tokens, now, ticks, resp, settings, request, lang_pc, entity,
                news_vars, text_vars, site_vars>>

\* a caller resolves one field of the entity for one language
ResolveField(field_prefix, language) ==
    /\ field_call' = [field_prefix |-> field_prefix, language |-> language,
                      result |-> get_localized_model_field(entity, field_prefix, language)]
    /\ FieldFrame

\* a caller asks for the per-language values of one field; one call a behaviour
MultilingualDict(field_prefix) ==
    /\ helper_call = NoHelperCall
    /\ helper_call' = [op |-> "get_multilingual_dict",
                       args |-> [field_prefix |-> field_prefix],
                       result |-> get_multilingual_dict(entity, field_prefix)]
    /\ UNCHANGED <<users, tokens, now, ticks, resp, settings, request, lang_pc, entity,
                   field_call, news_vars, localization_cache, site_vars>>

\* the fallback loop of get_localized_content over its own list: the first
\* truthy value of a language other than the requested one, else the last read
RECURSIVE FallbackContent(_, _, _, _, _)
FallbackContent(obj, field_prefix, language, fallback_languages, i) ==
    IF i > Len(fallback_languages) THEN None
    ELSE LET fallback_lang == fallback_languages[i]
             content == getattr(obj, FieldName(field_prefix, fallback_lang), None)
         IN  IF fallback_lang # language /\ Truthy(content) THEN content
             ELSE FallbackContent(obj, field_prefix, language, fallback_languages, i + 1)

\* get_localized_content (app/services/utils.py)
get_localized_content(obj, field_prefix, language) ==
    LET content == getattr(obj, FieldName(field_prefix, language), None)
        found == IF Truthy(content) THEN content
                 ELSE FallbackContent(obj, field_prefix, language, <<"uz", "ru", "en">>, 1)
    IN  IF Truthy(found) THEN found ELSE ""

\* a caller resolves one field through get_localized_content; one call a behaviour
LocalizedContent(field_prefix, language) ==
    /\ helper_call = NoHelperCall
    /\ helper_call' = [op |-> "get_localized_content",
                       args |-> [field_prefix |-> field_prefix, language |-> language],
                       result |-> get_localized_content(entity, field_prefix, language)]
    /\ UNCHANGED <<users, tokens, now, ticks, resp, settings, request, lang_pc, entity,
                   field_call, news_vars, localization_cache, site_vars>>

InitField ==
    /\ users = (1 :> create_admin_user)
    /\ tokens = {}
    /\ now = 0
    /\ ticks = 0
    /\ resp = NoResponse
    /\ settings \in Configs
    /\ request = LangIdle
    /\ lang_pc = "idle"
    /\ entity \in Entities
    /\ field_call = NoFieldCall
    /\ NoNews
    /\ NoHelperCalls
    /\ NoSite

NextField ==
    \/ \E p \in FieldPrefixes, l \in RequestedLanguages : ResolveField(p, l)
    \/ \E p \in FieldPrefixes : MultilingualDict(p)
    \/ \E p \in FieldPrefixes, l \in RequestedLanguages : LocalizedContent(p, l)

SpecField == InitField /\ [][NextField]_vars

----------------------------------------------------------------------------
(* News (app/api/v1/news.py, app/schemas/news.py, app/db/models/news.py) *)

\* the required str fields of NewsBase
NewsFields == {FieldName(p, l) : p \in {"title", "content"}, l \in {"uz", "ru", "en"}}

\* a payload with every field filled in
CompleteNews == [f \in NewsFields |-> "N"]

\* what a client may put into one field in place of a text
BlankValues == {"", " "}

\* request bodies: the complete one, one field blank, one field null, one field
\* left out
NewsPayloads ==
    {CompleteNews}
        \cup {[CompleteNews EXCEPT ![f] = b] : f \in NewsFields, b \in BlankValues}
        \cup {[CompleteNews EXCEPT ![f] = None] : f \in NewsFields}
        \cup {[g \in NewsFields \ {f} |-> "N"] : f \in NewsFields}

\* pydantic on NewsCreate: every field present and a str
NewsCreate(news_data) ==
    \A f \in NewsFields : f \in DOMAIN news_data /\ news_data[f] # None

\* News(**news_data.dict()) with the column defaults
NewsRow(news_data) ==
    [f \in NewsFields \cup {"image_path"} |->
        IF f = "image_path" THEN None ELSE news_data[f]]

\* the id the database gives the next row
NextNewsId == IF DOMAIN news = {} THEN 1
              ELSE (CHOOSE m \in DOMAIN news : \A n \in DOMAIN news : n <= m) + 1

NewsResponse(op, status, detail, news_id, news_data, touched) ==
    [op |-> op, status |-> status, detail |-> detail, news_id |-> news_id,
     news_data |-> news_data, touched |-> touched]

NewsFrame ==
    UNCHANGED <<users, tokens, now, ticks, resp, settings, request, lang_pc, entity,
                field_call, text_vars, site_vars>>

\* POST /api/v1/news/
create_news(token, news_data) ==
    LET current_user == get_moderator_user(token)
    IN  /\ IF current_user.status # HTTP_200_OK
           THEN /\ news_resp' = NewsResponse("create_news", current_user.status, "",
                                             NoId, news_data, FALSE)
                /\ UNCHANGED news
           ELSE IF ~NewsCreate(news_data)
           THEN /\ news_resp' = NewsResponse("create_news", HTTP_422_UNPROCESSABLE_ENTITY,
                                             "", NoId, news_data, FALSE)
                /\ UNCHANGED news
           ELSE /\ Cardinality(DOMAIN news) < MaxNews
                /\ news' = [n \in DOMAIN news \cup {NextNewsId} |->
                               IF n = NextNewsId THEN NewsRow(news_data) ELSE news[n]]
                /\ news_resp' = NewsResponse("create_news", HTTP_200_OK, "", NextNewsId,
                                             news_data, FALSE)
        /\ UNCHANGED files
        /\ NewsFrame

\* the admin of create_tables.py and a registered user without privileges, each
\* holding an access token
Staff == (1 :> create_admin_user) @@ (2 :> User("bob", "bob@tmsiti.uz", "pw", TRUE, FALSE, FALSE))

InitNews ==
    /\ users = Staff
    /\ now = 0
    /\ tokens = {create_access_token(u) : u \in DOMAIN Staff}
    /\ ticks = 0
    /\ resp = NoResponse
    /\ settings = DefaultSettings
    /\ request = LangIdle
    /\ lang_pc = "idle"
    /\ entity = EmptyMapping
    /\ field_call = NoFieldCall
    /\ NoNews
    /\ NoHelperCalls
    /\ NoSite

NextNews ==
    \E t \in Presentable, d \in NewsPayloads : create_news(t, d)

SpecNews == InitNews /\ [][NextNews]_vars

----------------------------------------------------------------------------
(* Uploads (app/services/utils.py, app/api/v1/news.py, app/core/config.py) *)

\* settings.max_file_size, in bytes
max_file_size == 10 * 1024 * 1024

allowed_image_extensions == <<".jpg", ".jpeg", ".png", ".gif", ".webp">>

allowed_document_extensions == <<".pdf", ".doc", ".docx">>

\* the position of the last c in s, 0 when there is none
RECURSIVE RFind(_, _)
RFind(s, c) ==
    IF s = "" THEN 0
    ELSE IF Char(s, Len(s)) = c THEN Len(s)
    ELSE RFind(SubSeq(s, 1, Len(s) - 1), c)

\* os.path.splitext(filename)[1] for a name without directories: from the last
\* dot on, "" when there is no dot or only a leading one
splitext_ext(filename) ==
    LET dot == RFind(filename, ".")
    IN  IF dot <= 1 THEN "" ELSE SubSeq(filename, dot, Len(filename))

\* mimetypes.guess_type(filename)[0] for the extensions of the model; None for
\* a name whose type is not known
guess_type(filename) ==
    LET ext == Lower(splitext_ext(filename))
    IN  CASE ext \in {".jpg", ".jpeg"} -> "image/jpeg"
          [] ext = ".png" -> "image/png"
          [] ext = ".pdf" -> "application/pdf"
          [] ext = ".exe" -> "application/x-msdownload"
          [] OTHER -> None

\* mime_type.startswith(prefix)
StartsWith(s, prefix) == Len(s) >= Len(prefix) /\ SubSeq(s, 1, Len(prefix)) = prefix

\* the MIME test of save_uploaded_file: TRUE when the upload may go on
MimeAllowed(mime_type, allowed_types) ==
    \/ mime_type = None
    \/ InList("image", allowed_types) /\ StartsWith(mime_type, "image/")
    \/ /\ InList("document", allowed_types)
       /\ StartsWith(mime_type, "application/") \/ StartsWith(mime_type, "text/")
    \/ /\ InList("image", allowed_types)
       /\ mime_type \in {"image/jpeg", "image/png", "image/gif", "image/webp"}
    \/ /\ InList("document", allowed_types)
       /\ mime_type \in {"application/pdf", "application/msword",
              "application/vnd.openxmlformats-officedocument.wordprocessingml.document"}

\* the file extension passes for one of the allowed types
ExtensionAllowed(file_extension, allowed_types) ==
    \/ InList("image", allowed_types) /\ InList(file_extension, allowed_image_extensions)
    \/ InList("document", allowed_types) /\ InList(file_extension, allowed_document_extensions)

\* what save_uploaded_file did: the status (200 when it returned), the detail of
\* the error, the path returned, the paths it left in storage, and whether it
\* wrote to storage at all
Saved(status, detail, file_path, stored, touched) ==
    [status |-> status, detail |-> detail, file_path |-> file_path, stored |-> stored,
     touched |-> touched]

\* save_uploaded_file with the size test made after the file is written
save_uploaded_file_late_size_check(file, folder, allowed_types, uuid4) ==
    LET file_extension == Lower(splitext_ext(file.filename))
        file_path == "static/uploads/" \o folder \o "/" \o uuid4 \o file_extension
    IN  IF file.filename = ""
        THEN Saved(HTTP_400_BAD_REQUEST, "No file provided", None, {}, FALSE)
        ELSE IF ~ExtensionAllowed(file_extension, allowed_types)
        THEN Saved(HTTP_400_BAD_REQUEST, "File type not allowed", None, {}, FALSE)
        ELSE IF ~MimeAllowed(guess_type(file.filename), allowed_types)
        THEN Saved(HTTP_400_BAD_REQUEST, "Invalid file type", None, {}, FALSE)
        ELSE IF ~file.storage_ok
        THEN Saved(HTTP_500_INTERNAL_SERVER_ERROR, "Failed to save file", None, {}, TRUE)
        ELSE IF file.size > max_file_size
        THEN Saved(HTTP_413_REQUEST_ENTITY_TOO_LARGE, "File size exceeds maximum",
                   None, {file_path}, TRUE)
        ELSE IF /\ InList("image", allowed_types)
                /\ InList(file_extension, allowed_image_extensions)
                /\ ~file.image_ok
        THEN Saved(HTTP_400_BAD_REQUEST, "Invalid image file", None, {}, TRUE)
        ELSE Saved(HTTP_200_OK, "", file_path, {file_path}, TRUE)

\* save_uploaded_file; uuid4 is the name uuid.uuid4() gives
save_uploaded_file(file, folder, allowed_types, uuid4) ==
    LET file_extension == Lower(splitext_ext(file.filename))
        file_path == "static/uploads/" \o folder \o "/" \o uuid4 \o file_extension
    IN  IF file.filename = ""
        THEN Saved(HTTP_400_BAD_REQUEST, "No file provided", None, {}, FALSE)
        ELSE IF file.size > max_file_size
        THEN Saved(HTTP_413_REQUEST_ENTITY_TOO_LARGE, "File size exceeds maximum",
                   None, {}, FALSE)
        ELSE IF ~ExtensionAllowed(file_extension, allowed_types)
        THEN Saved(HTTP_400_BAD_REQUEST, "File type not allowed", None, {}, FALSE)
        ELSE IF ~MimeAllowed(guess_type(file.filename), allowed_types)
        THEN Saved(HTTP_400_BAD_REQUEST, "Invalid file type", None, {}, FALSE)
        \* aiofiles.open / write fails: nothing is left behind
        ELSE IF ~file.storage_ok
        THEN Saved(HTTP_500_INTERNAL_SERVER_ERROR, "Failed to save file", None, {}, TRUE)
        \* validate_and_resize_image fails: the file written is removed again
        ELSE IF /\ InList("image", allowed_types)
                /\ InList(file_extension, allowed_image_extensions)
                /\ ~file.image_ok
        THEN Saved(HTTP_400_BAD_REQUEST, "Invalid image file", None, {}, TRUE)
        ELSE Saved(HTTP_200_OK, "", file_path, {file_path}, TRUE)

\* the names uuid.uuid4() may give
AllUuids == <<"u1", "u2", "u3">>

Uuids == {AllUuids[i] : i \in 1 .. MaxUuids}

\* the file names clients send
Filenames == {"", "a.jpg", "a.PNG", "a.exe", "a.pdf", "a"}

\* the sizes of the content, in bytes
FileSizes == {1, max_file_size, max_file_size + 1}

\* uploads: name, size, whether the content is an image PIL accepts, and
\* whether the storage takes the write; every name and size with sound content
\* and storage, and a small a.jpg with either or both failing
UploadFiles ==
    [filename : Filenames, size : FileSizes, image_ok : {TRUE}, storage_ok : {TRUE}]
        \cup [filename : {"a.jpg"}, size : {1}, image_ok : BOOLEAN, storage_ok : BOOLEAN]

\* POST /api/v1/news/{news_id}/upload-image
upload_news_image(token, news_id, file, uuid4) ==
    LET current_user == get_moderator_user(token)
        saved == save_uploaded_file(file, "news", <<"image">>, uuid4)
        old == news[news_id].image_path
    IN  /\ IF current_user.status # HTTP_200_OK
           THEN /\ news_resp' = NewsResponse("upload_news_image", current_user.status, "",
                                             news_id, file, FALSE)
                /\ UNCHANGED <<news, files>>
           ELSE IF news_id \notin DOMAIN news
           THEN /\ news_resp' = NewsResponse("upload_news_image", HTTP_404_NOT_FOUND,
                                             "News not found", news_id, file, FALSE)
                /\ UNCHANGED <<news, files>>
           ELSE IF saved.status # HTTP_200_OK
           THEN /\ news_resp' = NewsResponse("upload_news_image", saved.status,
                                             saved.detail, news_id, file, saved.touched)
                /\ files' = files \cup saved.stored
                /\ UNCHANGED news
           ELSE \* uuid4 never names a file that exists
                /\ saved.file_path \notin files
                /\ files' = (files \cup saved.stored) \ (IF Truthy(old) THEN {old} ELSE {})
                /\ news' = [news EXCEPT ![news_id].image_path = saved.file_path]
                /\ news_resp' = NewsResponse("upload_news_image", HTTP_200_OK, "",
                                             news_id, file, saved.touched)
        /\ NewsFrame

\* one complete news item without an image; the staff logged in
InitUpload ==
    /\ users = Staff
    /\ now = 0
    /\ tokens = {create_access_token(u) : u \in DOMAIN Staff}
    /\ ticks = 0
    /\ resp = NoResponse
    /\ settings = DefaultSettings
    /\ request = LangIdle
    /\ lang_pc = "idle"
    /\ entity = EmptyMapping
    /\ field_call = NoFieldCall
    /\ news = (1 :> NewsRow(CompleteNews))
    /\ files = {}
    /\ news_resp = NoNewsResponse
    /\ NoHelperCalls
    /\ NoSite

NextUpload ==
    \E t \in tokens \cup ForgedTokens, n \in 1 .. MaxNews + 1, f \in UploadFiles, u \in Uuids :
        upload_news_image(t, n, f, u)

SpecUpload == InitUpload /\ [][NextUpload]_vars

----------------------------------------------------------------------------
(* LocalizationHelper and the phrase lookup (app/middlewares/language.py) *)

\* what a helper call gave: a value, or an exception raised
Returned(value) == [raised |-> FALSE, value |-> value]

Raised(exception) == [raised |-> TRUE, value |-> exception]

\* required_languages=None, told apart from every list of languages
NoneList == <<None>>

\* the loop of validate_multilingual_data from position i, without the strip
RECURSIVE ValidateFromNoStrip(_, _, _)
ValidateFromNoStrip(data, required_languages, i) ==
    IF i > Len(required_languages) THEN Returned(TRUE)
    ELSE LET lang == required_languages[i]
         IN  IF lang \notin DOMAIN data THEN Returned(FALSE)
             ELSE IF data[lang] = None THEN Raised("AttributeError")
             ELSE IF data[lang] = "" THEN Returned(FALSE)
             ELSE ValidateFromNoStrip(data, required_languages, i + 1)

\* the loop of validate_multilingual_data from position i of required_languages;
\* None has no strip()
RECURSIVE ValidateFrom(_, _, _)
ValidateFrom(data, required_languages, i) ==
    IF i > Len(required_languages) THEN Returned(TRUE)
    ELSE LET lang == required_languages[i]
         IN  IF lang \notin DOMAIN data THEN Returned(FALSE)
             ELSE IF data[lang] = None THEN Raised("AttributeError")
             ELSE IF Strip(data[lang]) = "" THEN Returned(FALSE)
             ELSE ValidateFrom(data, required_languages, i + 1)

\* LocalizationHelper.validate_multilingual_data
validate_multilingual_data(data, required_languages) ==
    ValidateFrom(data,
                 IF required_languages = NoneList THEN settings.supported_languages
                 ELSE required_languages,
                 1)

\* the phrase table file of a language: a flat mapping from key to template
PhraseTable == ("welcome" :> "Hello {name}") @@ ("title" :> "News")

\* which languages have a readable table file under app/localization
LocalizationFiles == SUBSET {"uz", "ru", "en"}

\* LanguageMiddleware._load_localization_files: a table per configured language,
\* the empty one where the file is missing
_load_localization_files(present) ==
    [language \in {settings.supported_languages[i] : i \in DOMAIN settings.supported_languages} |->
        IF language \in present THEN PhraseTable ELSE EmptyMapping]

\* text.format(**kwargs) for templates with named fields: the text with each
\* {field} replaced, or KeyError for a field that is not among kwargs
RECURSIVE Format(_, _)
Format(text, kwargs) ==
    LET open == Find(text, "{")
        rest == SubSeq(text, open + 1, Len(text))
        close == Find(rest, "}")
        field == SubSeq(rest, 1, close - 1)
        tail == Format(SubSeq(rest, close + 1, Len(rest)), kwargs)
    IN  IF open = 0 THEN Returned(text)
        ELSE IF close = 0 THEN Raised("ValueError")
        ELSE IF field \notin DOMAIN kwargs THEN Raised("KeyError")
        ELSE IF tail.raised THEN tail
        ELSE Returned(SubSeq(text, 1, open - 1) \o kwargs[field] \o tail.value)

\* the lookup without the except clause
_get_localized_text_unguarded(key, language, kwargs) ==
    LET localization == Get(localization_cache, language, EmptyMapping)
        text == Get(localization, key, key)
    IN  IF kwargs # EmptyMapping THEN Format(text, kwargs) ELSE Returned(text)

\* LanguageMiddleware._get_localized_text; except Exception: return key
_get_localized_text(key, language, kwargs) ==
    LET localization == Get(localization_cache, language, EmptyMapping)
        text == Get(localization, key, key)
        formatted == Format(text, kwargs)
    IN  IF kwargs # EmptyMapping
        THEN IF formatted.raised THEN Returned(key) ELSE formatted
        ELSE Returned(text)

\* the keys handlers look up
PhraseKeys == {"welcome", "title", "missing"}

\* the formatting variables a handler passes
FormatKwargs == {EmptyMapping, ("name" :> "A"), ("user" :> "A")}

\* values of a multilingual payload, None among them
PayloadValues == {None, "", " ", "v", " v "}

\* payloads: any subset of the three languages as keys, any value for each
MultilingualData ==
    UNION {[langs -> PayloadValues] : langs \in SUBSET {"uz", "ru", "en"}}

\* the required_languages argument
RequiredLanguages ==
    {NoneList, <<>>, <<"uz">>, <<"en", "uz">>, <<"ru", "en", "uz">>, <<"fr">>}

HelperFrame ==
    UNCHANGED <<users, tokens, now, ticks, resp, settings, request, lang_pc, entity,
                field_call, news_vars, localization_cache, site_vars>>

\* a caller validates a payload; the helpers keep nothing between calls, so a
\* behaviour makes one call
ValidateData(data, required_languages) ==
    /\ helper_call = NoHelperCall
    /\ helper_call' = [op |-> "validate_multilingual_data",
                       args |-> [data |-> data, required_languages |-> required_languages],
                       result |-> validate_multilingual_data(data, required_languages)]
    /\ HelperFrame

\* a handler looks a phrase up
LocalizeText(key, language, kwargs) ==
    /\ helper_call = NoHelperCall
    /\ helper_call' = [op |-> "_get_localized_text",
                       args |-> [key |-> key, language |-> language, kwargs |-> kwargs],
                       result |-> _get_localized_text(key, language, kwargs)]
    /\ HelperFrame

InitHelper ==
    /\ users = (1 :> create_admin_user)
    /\ tokens = {}
    /\ now = 0
    /\ ticks = 0
    /\ resp = NoResponse
    /\ settings \in Configs
    /\ request = LangIdle
    /\ lang_pc = "idle"
    /\ entity = EmptyMapping
    /\ field_call = NoFieldCall
    /\ NoNews
    /\ \E present \in LocalizationFiles :
           localization_cache = _load_localization_files(present)
    /\ helper_call = NoHelperCall
    /\ NoSite

NextHelper ==
    \/ \E d \in MultilingualData, r \in RequiredLanguages : ValidateData(d, r)
    \/ \E k \in PhraseKeys, l \in RequestedLanguages, kw \in FormatKwargs :
          LocalizeText(k, l, kw)

SpecHelper == InitHelper /\ [][NextHelper]_vars

----------------------------------------------------------------------------
(* Contact inquiries (app/api/v1/contact.py, app/schemas/contact.py,         *)
(* app/db/models/contact.py)                                                 *)

\* Contact(**contact_data.dict()) with the column defaults; the sender's name,
\* address and message are never written again and are left out
Contact ==
    [is_read |-> FALSE, is_replied |-> FALSE, admin_response |-> None,
     responded_at |-> NoTime]

\* what a client may put into admin_response
AdminResponses == {None, "", "R"}

\* ContactUpdate after .dict(exclude_unset=True): the fields the client set
ContactUpdates ==
    {[fields         |-> f,
      is_read        |-> IF "is_read" \in f THEN r ELSE FALSE,
      is_replied     |-> IF "is_replied" \in f THEN p ELSE FALSE,
      admin_response |-> IF "admin_response" \in f THEN a ELSE None] :
        f \in SUBSET {"is_read", "is_replied", "admin_response"},
        r \in BOOLEAN, p \in BOOLEAN, a \in AdminResponses}

ContactResponse(op, status, id, update_data) ==
    [op |-> op, status |-> status, id |-> id, update_data |-> update_data]

\* the id the database gives the next row of a table
NextRowId(table) ==
    IF DOMAIN table = {} THEN 1
    ELSE (CHOOSE m \in DOMAIN table : \A n \in DOMAIN table : n <= m) + 1

\* POST /api/v1/contact/ (public)
create_contact ==
    /\ Cardinality(DOMAIN contacts) < MaxContacts
    /\ contacts' = [c \in DOMAIN contacts \cup {NextRowId(contacts)} |->
                       IF c \in DOMAIN contacts THEN contacts[c] ELSE Contact]
    /\ contact_resp' = ContactResponse("create_contact", HTTP_200_OK,
                                       NextRowId(contacts), EmptyMapping)
    /\ UNCHANGED <<users, tokens, now, ticks, resp, lang_vars, field_vars, news_vars,
                   text_vars, served, anti_corruption, management_systems>>

\* the row after update_contact: the reply first, then the loop over the other
\* fields of update_data
UpdatedContact(contact, update_data) ==
    LET replied ==
            IF "admin_response" \in update_data.fields /\ Truthy(update_data.admin_response)
            THEN [contact EXCEPT !.admin_response = update_data.admin_response,
                                 !.is_replied = TRUE,
                                 !.responded_at = now]
            ELSE contact
    IN  [replied EXCEPT
            !.is_read    = IF "is_read" \in update_data.fields
                           THEN update_data.is_read ELSE @,
            !.is_replied = IF "is_replied" \in update_data.fields
                           THEN update_data.is_replied ELSE @]

\* PUT /api/v1/contact/{contact_id}
update_contact(token, contact_id, contact_update) ==
    LET current_user == get_moderator_user(token)
    IN  /\ IF current_user.status # HTTP_200_OK
           THEN /\ contact_resp' = ContactResponse("update_contact", current_user.status,
                                                   contact_id, contact_update)
                /\ UNCHANGED contacts
           ELSE IF contact_id \notin DOMAIN contacts
           THEN /\ contact_resp' = ContactResponse("update_contact", HTTP_404_NOT_FOUND,
                                                   contact_id, contact_update)
                /\ UNCHANGED contacts
           ELSE /\ contacts' = [contacts EXCEPT
                                   ![contact_id] = UpdatedContact(@, contact_update)]
                /\ contact_resp' = ContactResponse("update_contact", HTTP_200_OK,
                                                   contact_id, contact_update)
        /\ UNCHANGED <<users, tokens, now, ticks, resp, lang_vars, field_vars, news_vars,
                       text_vars, served, anti_corruption, management_systems>>

InitContact ==
    /\ users = Staff
    /\ now = 0
    /\ tokens = {create_access_token(u) : u \in DOMAIN Staff}
    /\ ticks = 0
    /\ resp = NoResponse
    /\ settings = DefaultSettings
    /\ request = LangIdle
    /\ lang_pc = "idle"
    /\ entity = EmptyMapping
    /\ field_call = NoFieldCall
    /\ NoNews
    /\ NoHelperCalls
    /\ NoSite

NextContact ==
    \/ create_contact
    \/ \E t \in tokens \cup ForgedTokens, c \in 1 .. MaxContacts + 1, d \in ContactUpdates :
          update_contact(t, c, d)

SpecContact == InitContact /\ [][NextContact]_vars

----------------------------------------------------------------------------
(* Single-record resources: anti-corruption information                      *)
(* (app/api/v1/contact.py) and the management system (app/api/v1/activity.py) *)

\* texts a client may send for a content column
Contents == {"A", "B"}

\* AntiCorruption(**data.dict()) / ManagementSystem(**data.dict()) with the
\* column default is_active = True; content_uz stands for the text columns,
\* which are all written the same way
SingleRecord(content_uz) == [content_uz |-> content_uz, is_active |-> TRUE]

\* AntiCorruptionUpdate / ManagementSystemUpdate after .dict(exclude_unset=True)
SingleUpdates ==
    {[fields     |-> f,
      content_uz |-> IF "content_uz" \in f THEN c ELSE "",
      is_active  |-> IF "is_active" \in f THEN a ELSE TRUE] :
        f \in SUBSET {"content_uz", "is_active"}, c \in Contents, a \in BOOLEAN}

\* the rows that filter(is_active == True) selects; first() takes one of them
ActiveRows(table) == {r \in DOMAIN table : table[r].is_active}

\* for field, value in update_data.items(): setattr(row, field, value)
SetSingle(row, update_data) ==
    [row EXCEPT
        !.content_uz = IF "content_uz" \in update_data.fields
                       THEN update_data.content_uz ELSE @,
        !.is_active  = IF "is_active" \in update_data.fields
                       THEN update_data.is_active ELSE @]

\* db.add(row); db.commit()
Added(table, row) ==
    [r \in DOMAIN table \cup {NextRowId(table)} |->
        IF r \in DOMAIN table THEN table[r] ELSE row]

\* POST /api/v1/contact/anti-corruption
create_anti_corruption(token, content_uz) ==
    LET current_user == get_moderator_user(token)
    IN  /\ IF current_user.status # HTTP_200_OK
           THEN /\ contact_resp' = ContactResponse("create_anti_corruption",
                                                   current_user.status, NoId, EmptyMapping)
                /\ UNCHANGED anti_corruption
           ELSE IF ActiveRows(anti_corruption) # {}
           THEN \E existing \in ActiveRows(anti_corruption) :
                   /\ anti_corruption' =
                          [anti_corruption EXCEPT ![existing].content_uz = content_uz]
                   /\ contact_resp' = ContactResponse("create_anti_corruption",
                                                      HTTP_200_OK, existing, EmptyMapping)
           ELSE /\ Cardinality(DOMAIN anti_corruption) < MaxRecords
                /\ anti_corruption' = Added(anti_corruption, SingleRecord(content_uz))
                /\ contact_resp' = ContactResponse("create_anti_corruption", HTTP_200_OK,
                                                   NextRowId(anti_corruption), EmptyMapping)
        /\ UNCHANGED <<users, tokens, now, ticks, resp, lang_vars, field_vars, news_vars,
                       text_vars, served, contacts, management_systems>>

\* PUT /api/v1/contact/anti-corruption/{anti_corruption_id}
update_anti_corruption(token, anti_corruption_id, anti_corruption_update) ==
    LET current_user == get_moderator_user(token)
    IN  /\ IF current_user.status # HTTP_200_OK
           THEN /\ contact_resp' = ContactResponse("update_anti_corruption",
                                                   current_user.status, NoId, EmptyMapping)
                /\ UNCHANGED anti_corruption
           ELSE IF anti_corruption_id \notin DOMAIN anti_corruption
           THEN /\ contact_resp' = ContactResponse("update_anti_corruption",
                                                   HTTP_404_NOT_FOUND, NoId, EmptyMapping)
                /\ UNCHANGED anti_corruption
           ELSE /\ anti_corruption' =
                       [anti_corruption EXCEPT
                           ![anti_corruption_id] = SetSingle(@, anti_corruption_update)]
                /\ contact_resp' = ContactResponse("update_anti_corruption", HTTP_200_OK,
                                                   anti_corruption_id, EmptyMapping)
        /\ UNCHANGED <<users, tokens, now, ticks, resp, lang_vars, field_vars, news_vars,
                       text_vars, served, contacts, management_systems>>

\* POST /api/v1/activity/management-system
create_management_system(token, content_uz) ==
    LET current_user == get_moderator_user(token)
    IN  /\ IF current_user.status # HTTP_200_OK
           THEN /\ contact_resp' = ContactResponse("create_management_system",
                                                   current_user.status, NoId, EmptyMapping)
                /\ UNCHANGED management_systems
           ELSE IF ActiveRows(management_systems) # {}
           THEN \E existing_system \in ActiveRows(management_systems) :
                   /\ management_systems' =
                          [management_systems EXCEPT
                              ![existing_system].content_uz = content_uz]
                   /\ contact_resp' = ContactResponse("create_management_system",
                                                      HTTP_200_OK, existing_system,
                                                      EmptyMapping)
           ELSE /\ Cardinality(DOMAIN management_systems) < MaxRecords
                /\ management_systems' = Added(management_systems, SingleRecord(content_uz))
                /\ contact_resp' = ContactResponse("create_management_system", HTTP_200_OK,
                                                   NextRowId(management_systems),
                                                   EmptyMapping)
        /\ UNCHANGED <<users, tokens, now, ticks, resp, lang_vars, field_vars, news_vars,
                       text_vars, served, contacts, anti_corruption>>

\* PUT /api/v1/activity/management-system/{system_id}
update_management_system(token, system_id, system_update) ==
    LET current_user == get_moderator_user(token)
    IN  /\ IF current_user.status # HTTP_200_OK
           THEN /\ contact_resp' = ContactResponse("update_management_system",
                                                   current_user.status, NoId, EmptyMapping)
                /\ UNCHANGED management_systems
           ELSE IF system_id \notin DOMAIN management_systems
           THEN /\ contact_resp' = ContactResponse("update_management_system",
                                                   HTTP_404_NOT_FOUND, NoId, EmptyMapping)
                /\ UNCHANGED management_systems
           ELSE /\ management_systems' =
                       [management_systems EXCEPT
                           ![system_id] = SetSingle(@, system_update)]
                /\ contact_resp' = ContactResponse("update_management_system", HTTP_200_OK,
                                                   system_id, EmptyMapping)
        /\ UNCHANGED <<users, tokens, now, ticks, resp, lang_vars, field_vars, news_vars,
                       text_vars, served, contacts, anti_corruption>>

NextSingle ==
    \/ \E t \in tokens \cup ForgedTokens, c \in Contents : create_anti_corruption(t, c)
    \/ \E t \in tokens \cup ForgedTokens, r \in 1 .. MaxRecords + 1, d \in SingleUpdates :
          update_anti_corruption(t, r, d)
    \/ \E t \in tokens \cup ForgedTokens, c \in Contents : create_management_system(t, c)
    \/ \E t \in tokens \cup ForgedTokens, r \in 1 .. MaxRecords + 1, d \in SingleUpdates :
          update_management_system(t, r, d)

SpecSingle == InitContact /\ [][NextSingle]_vars

----------------------------------------------------------------------------
(* Claims about the authorization gate and the token endpoints *)

GateOps == {"get_current_user", "get_admin_user", "get_moderator_user"}

\* a token the token service decodes now, issued for a principal that exists
Resolves(t) == decode_token(t).ok /\ t.sub \in DOMAIN users

\* the issued tokens of subject u are all still decodable, so a request signed
\* for u came with a token that decodes
AllDecodable(u) == \A t \in tokens : t.sub = u => decode_token(t).ok

\* C1: a validly signed, unexpired refresh token of an existing active principal
\* is rejected with Unauthorized by get_current_user, get_admin_user and
\* get_moderator_user.
C1_RefreshTokenRejectedByGate ==
    \A t \in tokens :
        (t.type = "refresh" /\ Resolves(t) /\ users[t.sub].is_active) =>
            /\ get_current_user(t).status = HTTP_401_UNAUTHORIZED
            /\ get_admin_user(t).status = HTTP_401_UNAUTHORIZED
            /\ get_moderator_user(t).status = HTTP_401_UNAUTHORIZED

\* C2: while a principal's is_active is false, every login with its username,
\* every refresh and every gate check with a token of its subject fails with
\* Unauthorized, tokens issued before the deactivation included.
C2_InactiveNeverAuthenticates ==
    /\ \A u \in DOMAIN users : ~users[u].is_active =>
          /\ \A t \in Presentable : t.sub = u =>
                /\ get_current_user(t).status = HTTP_401_UNAUTHORIZED
                /\ get_admin_user(t).status = HTTP_401_UNAUTHORIZED
                /\ get_moderator_user(t).status = HTTP_401_UNAUTHORIZED
                /\ refresh_token(t).status = HTTP_401_UNAUTHORIZED
                /\ refresh_token(t).issued = {}
          /\ \A p \in Passwords :
                /\ login(users[u].username, p).status = HTTP_401_UNAUTHORIZED
                /\ login(users[u].username, p).issued = {}
    /\ (/\ resp.op \in GateOps \cup {"refresh_token", "login"}
        /\ resp.sub \in DOMAIN users
        /\ ~users[resp.sub].is_active) => resp.status = HTTP_401_UNAUTHORIZED

\* C2 witness: a principal was deactivated while holding tokens that still decode,
\* and the last request, a gate check signed for it, was refused.
C2_Witness ==
    \E u \in DOMAIN users :
        /\ ~users[u].is_active
        /\ \E t \in tokens : t.sub = u /\ t.type = "access"
        /\ AllDecodable(u)
        /\ resp.op = "get_current_user" /\ resp.sub = u
        /\ resp.status = HTTP_401_UNAUTHORIZED

\* C3: for the principal a valid token resolves to, get_admin_user succeeds
\* exactly when it is active and admin, get_moderator_user exactly when it is
\* active and admin or moderator; both answer Forbidden for an active principal
\* with neither role flag, and no gate check succeeds for an inactive one.
C3_GateFollowsFlags ==
    /\ \A t \in Presentable : Resolves(t) =>
          LET user == users[t.sub]
          IN  /\ get_admin_user(t).status = HTTP_200_OK
                    <=> (user.is_active /\ user.is_admin)
              /\ get_moderator_user(t).status = HTTP_200_OK
                    <=> (user.is_active /\ (user.is_admin \/ user.is_moderator))
              /\ (user.is_active /\ ~user.is_admin /\ ~user.is_moderator) =>
                    /\ get_admin_user(t).status = HTTP_403_FORBIDDEN
                    /\ get_moderator_user(t).status = HTTP_403_FORBIDDEN
              /\ ~user.is_active =>
                    /\ get_current_user(t).status # HTTP_200_OK
                    /\ get_admin_user(t).status # HTTP_200_OK
                    /\ get_moderator_user(t).status # HTTP_200_OK
    /\ (resp.op = "get_admin_user" /\ resp.status = HTTP_200_OK) =>
          users[resp.uid].is_active /\ users[resp.uid].is_admin
    /\ (resp.op = "get_moderator_user" /\ resp.status = HTTP_200_OK) =>
          /\ users[resp.uid].is_active
          /\ users[resp.uid].is_admin \/ users[resp.uid].is_moderator

\* C3 witness: an admin that is no moderator has just passed get_moderator_user,
\* while an active principal with neither flag holds a token that decodes.
C3_Witness ==
    /\ resp.op = "get_moderator_user" /\ resp.status = HTTP_200_OK
    /\ users[resp.uid].is_admin /\ ~users[resp.uid].is_moderator
    /\ \E t \in tokens :
          /\ Resolves(t) /\ t.type = "access"
          /\ users[t.sub].is_active /\ ~users[t.sub].is_admin /\ ~users[t.sub].is_moderator

\* C4: get_current_user answers Unauthorized, and nothing else, when the token
\* does not decode, carries no subject, names a principal that does not exist or
\* names an inactive one; otherwise it returns the principal whose id is the
\* token's subject.
C4_CurrentUserOutcomes ==
    /\ \A t \in Presentable :
          IF \/ ~decode_token(t).ok
             \/ t.sub = NoId
             \/ t.sub \notin DOMAIN users
             \/ ~users[t.sub].is_active
          THEN get_current_user(t) = Outcome(HTTP_401_UNAUTHORIZED, NoId)
          ELSE get_current_user(t) = Outcome(HTTP_200_OK, t.sub)
    /\ resp.op = "get_current_user" =>
          \/ resp.status = HTTP_401_UNAUTHORIZED /\ resp.uid = NoId
          \/ resp.status = HTTP_200_OK /\ resp.uid = resp.sub /\ resp.uid \in DOMAIN users

\* C4 witness: the principal of a token that still decodes was deleted, and the
\* last request, GET /me signed for it, was refused.
C4_Witness ==
    /\ resp.op = "get_current_user" /\ resp.status = HTTP_401_UNAUTHORIZED
    /\ resp.sub # NoId /\ resp.sub \notin DOMAIN users
    /\ AllDecodable(resp.sub)

\* C5 (decision): POST /refresh answers 200 with a token pair only for a token
\* that decodes, has type "refresh" and names an existing active principal; a
\* decodable token of any other type is answered Unauthorized with no tokens.
C5_RefreshDecision ==
    /\ \A t \in Presentable :
          LET r == refresh_token(t)
          IN  /\ r.status = HTTP_200_OK =>
                    /\ decode_token(t).ok /\ t.type = "refresh"
                    /\ t.sub \in DOMAIN users /\ users[t.sub].is_active
                    /\ r.uid = t.sub
              /\ r.issued # {} => r.status = HTTP_200_OK
              /\ (decode_token(t).ok /\ t.type # "refresh") =>
                    r.status = HTTP_401_UNAUTHORIZED /\ r.issued = {}
    /\ (resp.op = "refresh_token" /\ resp.status = HTTP_200_OK) =>
          /\ resp.uid = resp.sub
          /\ users[resp.uid].is_active
          /\ \E t \in tokens : t.sub = resp.uid /\ t.type = "refresh" /\ decode_token(t).ok

\* C5 (effect): a refresh request that is not answered 200 leaves the issued
\* tokens as they were.
C5_RefusedRefreshIssuesNothing ==
    (resp'.op = "refresh_token" /\ resp'.status # HTTP_200_OK) => tokens' = tokens

\* C5: the refresh endpoint issues a new pair only for a refresh-typed token of an
\* existing active principal, and refuses every other type without issuing.
C5_RefreshOnlyWithRefreshToken ==
    []C5_RefreshDecision /\ [][C5_RefusedRefreshIssuesNothing]_vars

\* C5 witness: after the access token expired, a refresh request signed for an
\* active principal was answered 200 and its new pair is among the tokens.
C5_Witness ==
    /\ resp.op = "refresh_token" /\ resp.status = HTTP_200_OK
    /\ \E t \in tokens : t.sub = resp.uid /\ t.type = "access" /\ ~decode_token(t).ok
    /\ TokenPair(resp.uid) \subseteq tokens

\* the step just taken was a gate check, a token refresh or a refused login
ReadOnlyAuthStep ==
    \/ resp'.op \in GateOps
    \/ resp'.op = "refresh_token"
    \/ resp'.op = "login" /\ resp'.status # HTTP_200_OK

\* a step and what it does to last_login
C15_LastLoginStep ==
    /\ ReadOnlyAuthStep => users' = users
    /\ (resp'.op = "login" /\ resp'.status = HTTP_200_OK) =>
           users' = [users EXCEPT ![resp'.uid].last_login = now]
    /\ \A u \in DOMAIN users \cap DOMAIN users' :
           users'[u].last_login # users[u].last_login =>
               resp'.op = "login" /\ resp'.status = HTTP_200_OK /\ resp'.uid = u

\* C15: a successful login sets the principal's last_login to the current time
\* and changes nothing else; a refused login, a gate check and a token refresh
\* leave the users table as it was; no other step changes a last_login.
C15_LastLoginOnlyByLogin == [][C15_LastLoginStep]_vars

\* C15 witness: a refresh succeeded after the clock moved on, and the principal's
\* last_login still is the earlier time of the login.
C15_Witness ==
    /\ resp.op = "refresh_token" /\ resp.status = HTTP_200_OK
    /\ users[resp.uid].last_login # NoTime
    /\ users[resp.uid].last_login < now

----------------------------------------------------------------------------
(* Claims about the language negotiator *)

\* the request has been through _detect_language
Negotiated == lang_pc # "idle"

Supported == {settings.supported_languages[i] : i \in DOMAIN settings.supported_languages}

\* the lang parameter is present and names a configured language
ValidOverride ==
    "lang" \in DOMAIN request.query_params /\ request.query_params["lang"] \in Supported

\* the header's entries in the order listed, each as (lang, quality); an absent
\* header reads as the empty string
Entries ==
    LET tags == Split(Get(request.headers, "Accept-Language", ""), ",")
    IN  [i \in DOMAIN tags |-> ParseTag(tags[i])]

\* entry i of E is in the configured set and no configured entry outranks it:
\* none has a higher weight, and none of equal weight is listed before it
Preferred(E, i) ==
    /\ E[i].lang \in Supported
    /\ \A j \in DOMAIN E : E[j].lang \in Supported =>
          \/ E[j].quality < E[i].quality
          \/ E[j].quality = E[i].quality /\ i <= j

\* C6: a lang parameter that names a configured language is the language
\* selected, whatever the Accept-Language header holds.
C6_OverrideWins ==
    (Negotiated /\ ValidOverride) =>
        request.state_language = request.query_params["lang"]

\* C6 witness: the override was selected although the header's preferred entry is
\* another configured language.
C6_Witness ==
    /\ Negotiated /\ ValidOverride
    /\ request.state_language = request.query_params["lang"]
    /\ LET E == Entries
       IN  \E i \in DOMAIN E : Preferred(E, i) /\ E[i].lang # request.query_params["lang"]

\* C7: without a valid override, a header with at least one configured entry
\* selects the configured entry of highest weight, the earliest listed among
\* equals; entries outside the configured set never count.
C7_HighestWeightEarliestWins ==
    (Negotiated /\ ~ValidOverride) =>
        LET E == Entries
        IN  (\E i \in DOMAIN E : E[i].lang \in Supported) =>
                \E i \in DOMAIN E : Preferred(E, i) /\ request.state_language = E[i].lang

\* C7 witness: two configured languages tie for the highest weight, an entry
\* outside the set has a higher weight still, and the earlier of the two was
\* selected.
C7_Witness ==
    /\ Negotiated /\ ~ValidOverride
    /\ LET E == Entries
       IN  \E i, j, k \in DOMAIN E :
              /\ Preferred(E, i) /\ i < j
              /\ E[j].lang \in Supported /\ E[j].lang # E[i].lang
              /\ E[j].quality = E[i].quality
              /\ E[k].lang \notin Supported /\ E[k].quality > E[i].quality
              /\ request.state_language = E[i].lang

\* C8: without a valid override and without a configured entry in the header
\* (absent, empty, or only other languages) the configured default is selected.
C8_DefaultWhenNothingUsable ==
    (Negotiated /\ ~ValidOverride) =>
        LET E == Entries
        IN  (\A i \in DOMAIN E : E[i].lang \notin Supported) =>
                request.state_language = settings.default_language

\* C8 witness: an override outside the set and a header naming only a language
\* outside the set gave the default, which is not the first configured language.
C8_Witness ==
    /\ Negotiated
    /\ "lang" \in DOMAIN request.query_params
    /\ request.query_params["lang"] # "" /\ ~ValidOverride
    /\ "Accept-Language" \in DOMAIN request.headers
    /\ request.state_language = settings.default_language
    /\ settings.default_language # settings.supported_languages[1]
    /\ LET E == Entries
       IN  /\ \E i \in DOMAIN E : E[i].lang # ""
           /\ \A i \in DOMAIN E : E[i].lang \notin Supported

\* C9: the selected language is the configured default, or a configured language
\* that the client named in the lang parameter or in a header entry; a code
\* outside the configured set is never selected because the client named it.
C9_OnlyConfiguredOrDefault ==
    Negotiated =>
        \/ request.state_language = settings.default_language
        \/ /\ request.state_language \in Supported
           /\ \/ ValidOverride /\ request.query_params["lang"] = request.state_language
              \/ LET E == Entries
                 IN  \E i \in DOMAIN E : E[i].lang = request.state_language

\* C9 witness: the client named a language outside the set both as override and
\* as the header's heaviest entry, and a configured entry of lower weight, other
\* than the default, was selected.
C9_Witness ==
    /\ Negotiated
    /\ "lang" \in DOMAIN request.query_params
    /\ request.query_params["lang"] # "" /\ ~ValidOverride
    /\ request.state_language \in Supported
    /\ request.state_language # settings.default_language
    /\ LET E == Entries
       IN  \E i, k \in DOMAIN E :
              /\ E[k].lang \notin Supported /\ E[k].lang # ""
              /\ E[k].quality > E[i].quality
              /\ E[i].lang = request.state_language

\* what each header element of the model stands for once normalised: the
\* primary subtag in lower case without surrounding blanks, and the weight in
\* thousandths, 1.0 when there is no q or q is not a number
NormalisedAs ==
    [tag \in HeaderTags \cup {""} |->
        CASE tag = " ru;q=0.9"   -> [lang |-> "ru", quality |-> 900]
          [] tag = " xx;q=1.0"   -> [lang |-> "xx", quality |-> 1000]
          [] tag = "uz;q=0.5"    -> [lang |-> "uz", quality |-> 500]
          [] tag = "en-US;q=0.9" -> [lang |-> "en", quality |-> 900]
          [] tag = " EN "        -> [lang |-> "en", quality |-> 1000]
          [] tag = "ru;q=abc"    -> [lang |-> "ru", quality |-> 1000]
          [] tag = ""            -> [lang |-> "", quality |-> 1000]]

\* the header's elements as written, in the order listed
RawTags == Split(Get(request.headers, "Accept-Language", ""), ",")

\* C16: without a valid override the language selected is the one the header
\* yields when each element counts as its normalised form: "en-US" and " EN "
\* as en, a missing or unparsable q as weight 1.0.
C16_EntriesNormalised ==
    (Negotiated /\ ~ValidOverride) =>
        LET tags == RawTags
            E == [i \in DOMAIN tags |-> NormalisedAs[tags[i]]]
        IN  IF \E i \in DOMAIN E : E[i].lang \in Supported
            THEN \E i \in DOMAIN E : Preferred(E, i) /\ request.state_language = E[i].lang
            ELSE request.state_language = settings.default_language

\* C16 witness: the header lists uz with q=0.5, en-US with q=0.9 and ru with an
\* unparsable q, ru and en are configured, and ru was selected.
C16_Witness ==
    /\ Negotiated /\ ~ValidOverride
    /\ {"ru", "en"} \subseteq Supported
    /\ LET tags == RawTags
       IN  /\ \E i, j \in DOMAIN tags :
                 i < j /\ tags[i] = "en-US;q=0.9" /\ tags[j] = "ru;q=abc"
           /\ \E k \in DOMAIN tags : tags[k] = "uz;q=0.5"
    /\ request.state_language = "ru"

\* the language in request.state stays what dispatch attached while the handler
\* runs and the response is built
C19_LanguageKept ==
    lang_pc \in {"call_next", "response"} => request'.state_language = request.state_language

\* a Content-Language header that was written names the language of request.state
C19_HeaderIsActiveLanguage ==
    request.content_language # Unset => request.content_language = request.state_language

\* C19: the code written to the response's Content-Language header equals the
\* language attached to request.state before the handler ran, which the handler
\* saw unchanged.
C19_ContentLanguageEchoesState ==
    []C19_HeaderIsActiveLanguage /\ [][C19_LanguageKept]_vars

\* C19 witness: a response went out with a Content-Language other than the
\* configured default, the language the header of the request asked for.
C19_Witness ==
    /\ lang_pc = "sent"
    /\ request.content_language # Unset
    /\ request.content_language = request.state_language
    /\ request.content_language # settings.default_language
    /\ ~ValidOverride

----------------------------------------------------------------------------
(* Claims about the localized field resolver *)

\* a resolver call has been made
Resolved == field_call # NoFieldCall

\* what the entity holds for the resolved field in language l
Held(l) == getattr(entity, FieldName(field_call.field_prefix, l), None)

\* the positions of the configured list, other than the requested language,
\* whose value is non-empty
Candidates ==
    {i \in DOMAIN settings.supported_languages :
        /\ settings.supported_languages[i] # field_call.language
        /\ Truthy(Held(settings.supported_languages[i]))}

\* the entity of the example: content_en = "X" and no other content
OnlyEnglishX ==
    /\ Held("en") = "X"
    /\ \A c \in DOMAIN entity : c # FieldName("content", "en") => ~Truthy(entity[c])

\* C10: when the entity holds nothing for the requested language, the resolver
\* returns the non-empty value of the earliest position of the configured list
\* among the other languages, whatever language was requested; with only
\* content_en = "X" set and the list uz, ru, en, resolving content for ru and for
\* en both give "X".
C10_FallbackInDeclaredOrder ==
    Resolved =>
        /\ (~Truthy(Held(field_call.language)) /\ Candidates # {}) =>
              \E i \in Candidates :
                  /\ \A j \in Candidates : i <= j
                  /\ field_call.result = Held(settings.supported_languages[i])
        /\ (/\ settings = DefaultSettings /\ field_call.field_prefix = "content"
            /\ OnlyEnglishX /\ field_call.language \in {"ru", "en"}) =>
              field_call.result = "X"

\* C10 witness: nothing is held for the requested language, a configured one,
\* two other languages of the list hold different texts, and the text of the
\* earlier of the two came back.
C10_Witness ==
    /\ Resolved /\ ~Truthy(Held(field_call.language))
    /\ \E i, j \in Candidates :
          /\ i < j
          /\ Held(settings.supported_languages[i]) # Held(settings.supported_languages[j])
          /\ field_call.result = Held(settings.supported_languages[i])
    /\ field_call.language \in Supported

\* C11: when the entity holds a non-empty value for the requested language, the
\* resolver returns exactly that value, whatever the other languages hold.
C11_ExactMatchReturned ==
    (Resolved /\ Truthy(Held(field_call.language))) =>
        field_call.result = Held(field_call.language)

\* C11 witness: the requested language holds a text, a language earlier in the
\* configured list holds a different text, and the requested one came back.
C11_Witness ==
    /\ Resolved /\ Truthy(Held(field_call.language))
    /\ field_call.result = Held(field_call.language)
    /\ \E i, j \in DOMAIN settings.supported_languages :
          /\ i < j /\ settings.supported_languages[j] = field_call.language
          /\ Truthy(Held(settings.supported_languages[i]))
          /\ Held(settings.supported_languages[i]) # field_call.result

\* the languages the resolver may read: the configured ones and the requested one
Consulted == Supported \cup {field_call.language}

\* language codes and field names, which are never texts of the entity
Placeholders ==
    Consulted \cup {field_call.field_prefix}
        \cup {FieldName(field_call.field_prefix, l) : l \in Consulted}

\* C12: the resolver's result is the empty string or one of the entity's own
\* values for the field in a consulted language; it is the empty string exactly
\* when the entity holds nothing non-empty in any consulted language; it is
\* never None, a language code or a field name.
C12_OwnValueOrEmpty ==
    Resolved =>
        /\ field_call.result = "" \/ \E l \in Consulted : field_call.result = Held(l)
        /\ field_call.result = "" <=> \A l \in Consulted : ~Truthy(Held(l))
        /\ field_call.result # None
        /\ field_call.result \notin Placeholders

\* C12 witness: the entity has the requested column set to None, another column
\* empty and a third missing, and the empty string came back.
C12_Witness ==
    /\ Resolved /\ field_call.result = ""
    /\ field_call.language \in Supported
    /\ FieldName(field_call.field_prefix, field_call.language) \in DOMAIN entity
    /\ Held(field_call.language) = None
    /\ \E l \in Supported :
          FieldName(field_call.field_prefix, l) \in DOMAIN entity /\ Held(l) = ""
    /\ \E l \in Supported : FieldName(field_call.field_prefix, l) \notin DOMAIN entity

\* C17: get_multilingual_dict returns a mapping whose keys are exactly the
\* configured languages, each mapped to what the entity itself holds in that
\* language's field ("" for a field the entity lacks), never to the value of
\* another language.
C17_RawValuesPerLanguage ==
    helper_call.op = "get_multilingual_dict" =>
        LET result == helper_call.result
            prefix == helper_call.args.field_prefix
        IN  /\ DOMAIN result = Supported
            /\ \A l \in Supported :
                  result[l] = IF FieldName(prefix, l) \in DOMAIN entity
                              THEN entity[FieldName(prefix, l)]
                              ELSE ""

\* C17 witness: one configured language mapped to the empty string while
\* another is mapped to a text of the entity.
C17_Witness ==
    /\ helper_call.op = "get_multilingual_dict"
    /\ \E l, k \in Supported :
          /\ FieldName(helper_call.args.field_prefix, l) \in DOMAIN entity
          /\ helper_call.result[l] = ""
          /\ Truthy(helper_call.result[k])

\* the phrase table the last lookup read
ActiveTable == Get(localization_cache, helper_call.args.language, EmptyMapping)

\* the text the last lookup found: the table's for a key that is present, the
\* key itself otherwise
Template ==
    IF helper_call.args.key \in DOMAIN ActiveTable
    THEN ActiveTable[helper_call.args.key]
    ELSE helper_call.args.key

\* the variables each text of the model needs
Needs(text) == IF text = "Hello {name}" THEN {"name"} ELSE {}

\* the text with the variables of the last lookup put in
Rendered ==
    IF Template = "Hello {name}" /\ "name" \in DOMAIN helper_call.args.kwargs
    THEN "Hello " \o helper_call.args.kwargs["name"]
    ELSE Template

----------------------------------------------------------------------------
(* Claims about news *)

\* a multilingual payload or row that lacks a non-blank text in a required field
Incomplete(d) ==
    \E f \in NewsFields : f \notin DOMAIN d \/ d[f] = None \/ Strip(d[f]) = ""

ClientErrors == 400 .. 499

\* C13: a create request whose payload has an empty or whitespace-only value in
\* a required language field ends in a client error, and no record with such a
\* value is in the table.
C13_IncompleteCreateRejected ==
    /\ (news_resp.op = "create_news" /\ Incomplete(news_resp.news_data)) =>
           news_resp.status \in ClientErrors
    /\ \A n \in DOMAIN news : ~Incomplete(news[n])

----------------------------------------------------------------------------
(* Claims about LocalizationHelper and the phrase lookup *)

\* the languages the last validate_multilingual_data call required
Required ==
    LET r == helper_call.args.required_languages
    IN  IF r = NoneList THEN Supported ELSE {r[i] : i \in DOMAIN r}

----------------------------------------------------------------------------
(* Claims about uploads *)

\* the names of the model whose extension is not an image extension
DisallowedNames == {"a.exe", "a.pdf", "a"}

\* the step just taken handled an upload that got past the gate and the lookup
\* of the news item, with a file that is too large or of a disallowed extension
RejectedUploadStep ==
    /\ news_resp'.op = "upload_news_image"
    /\ news_resp'.status \notin {HTTP_401_UNAUTHORIZED, HTTP_403_FORBIDDEN, HTTP_404_NOT_FOUND}
    /\ news_resp'.news_data.filename # ""
    /\ \/ news_resp'.news_data.size > max_file_size
       \/ news_resp'.news_data.filename \in DisallowedNames

\* a rejected upload and what it leaves behind
C20_RejectedUploadStep ==
    RejectedUploadStep =>
        /\ news_resp'.status \in {HTTP_413_REQUEST_ENTITY_TOO_LARGE, HTTP_400_BAD_REQUEST}
        /\ ~news_resp'.touched
        /\ files' = files
        /\ news' = news

\* C20: an upload rejected for its size or its extension is refused before
\* anything is written to storage, and the news item keeps its image path and
\* the file it names.
C20_RejectedUploadTouchesNothing == [][C20_RejectedUploadStep]_vars

\* C20 witness: a file over the size limit was refused while the news item has
\* an image from an earlier upload, which is still in storage.
C20_Witness ==
    /\ news_resp.op = "upload_news_image"
    /\ news_resp.status = HTTP_413_REQUEST_ENTITY_TOO_LARGE
    /\ news_resp.news_data.size > max_file_size
    /\ ~news_resp.touched
    /\ Truthy(news[1].image_path)
    /\ files = {news[1].image_path}


----------------------------------------------------------------------------
(* Claims about the order of the gate's checks *)

\* the principal lacks the role the gate operation asks for
LacksRole(op, user) ==
    IF op = "get_admin_user" THEN ~user.is_admin
    ELSE ~user.is_admin /\ ~user.is_moderator

\* C29: the gate makes the active check before any role check: for a token that
\* resolves to an inactive principal get_admin_user and get_moderator_user answer
\* Unauthorized, never Forbidden, whatever its role flags; Forbidden is answered
\* only for an existing active principal that lacks the required role.
C29_ActiveBeforeRole ==
    /\ \A t \in Presentable :
          /\ (Resolves(t) /\ ~users[t.sub].is_active) =>
                /\ get_admin_user(t).status = HTTP_401_UNAUTHORIZED
                /\ get_moderator_user(t).status = HTTP_401_UNAUTHORIZED
          /\ get_admin_user(t).status = HTTP_403_FORBIDDEN =>
                /\ Resolves(t) /\ users[t.sub].is_active
                /\ LacksRole("get_admin_user", users[t.sub])
          /\ get_moderator_user(t).status = HTTP_403_FORBIDDEN =>
                /\ Resolves(t) /\ users[t.sub].is_active
                /\ LacksRole("get_moderator_user", users[t.sub])
    /\ (/\ resp.op \in {"get_admin_user", "get_moderator_user"}
        /\ resp.status = HTTP_403_FORBIDDEN) =>
          /\ resp.sub \in DOMAIN users
          /\ users[resp.sub].is_active
          /\ LacksRole(resp.op, users[resp.sub])

\* C29 witness: an inactive principal without the admin flag holds an access
\* token that decodes, and its last request, through get_admin_user, was answered
\* Unauthorized.
C29_Witness ==
    /\ resp.op = "get_admin_user" /\ resp.status = HTTP_401_UNAUTHORIZED
    /\ resp.sub \in DOMAIN users
    /\ ~users[resp.sub].is_active /\ ~users[resp.sub].is_admin
    /\ \E t \in tokens : t.sub = resp.sub /\ t.type = "access"
    /\ AllDecodable(resp.sub)


\* whether the gate operation that stands for the role admits the holder of token
Admits(required_role, token) ==
    IF required_role = "admin" THEN get_admin_user(token).status = HTTP_200_OK
    ELSE IF required_role = "moderator"
         THEN get_moderator_user(token).status = HTTP_200_OK
    ELSE IF required_role = "user" THEN get_current_user(token).status = HTTP_200_OK
    ELSE FALSE

\* C30: AuthService.verify_user_permissions agrees with the gate for every
\* principal: it returns true for the roles "admin", "moderator" and "user"
\* exactly when get_admin_user, get_moderator_user and get_current_user admit
\* the principal, and false for every other role name and for every inactive
\* principal.
C30_PermissionsAgreeWithGate ==
    helper_call.op = "verify_user_permissions" =>
        LET user == helper_call.args.user
            required_role == helper_call.args.required_role
        IN  /\ helper_call.result = Admits(required_role, create_access_token(user))
            /\ required_role \notin {"admin", "moderator", "user"} => ~helper_call.result
            /\ ~users[user].is_active => ~helper_call.result

\* C30 witness: the service was asked for "moderator" about an active admin
\* without the moderator flag and returned true, and the last gate check,
\* get_moderator_user for the same principal, was answered 200.
C30_Witness ==
    /\ helper_call.op = "verify_user_permissions"
    /\ helper_call.args.required_role = "moderator"
    /\ helper_call.result
    /\ users[helper_call.args.user].is_admin
    /\ ~users[helper_call.args.user].is_moderator
    /\ resp.op = "get_moderator_user" /\ resp.status = HTTP_200_OK
    /\ resp.uid = helper_call.args.user


----------------------------------------------------------------------------
(* Claims about the two field resolvers *)

\* C28: get_localized_content (services/utils) and get_localized_model_field
\* (middlewares/language) return the same value for every entity, field prefix
\* and requested language, for every configured language list.
C28_ResolversAgree ==
    helper_call.op = "get_localized_content" =>
        helper_call.result =
            get_localized_model_field(entity, helper_call.args.field_prefix,
                                      helper_call.args.language)


----------------------------------------------------------------------------
(* Claims about the users table under the API requests *)

\* another principal than target holds the username or the email that the
\* update sets
WouldDuplicate(target, d) ==
    /\ target \in DOMAIN users
    /\ \E other \in DOMAIN users \ {target} :
          \/ "username" \in d.fields /\ users[other].username = d.username
          \/ "email" \in d.fields /\ users[other].email = d.email

\* some principal holds the username or the email
Held2(username, email) ==
    \E u \in DOMAIN users : users[u].username = username \/ users[u].email = email

\* the step was answered with a client error and left every principal as it was
RefusedUnchanged == resp'.status \in ClientErrors /\ users' = users

\* no two principals share a username, no two share an email
C21_Unique ==
    \A u, v \in DOMAIN users :
        u # v => users[u].username # users[v].username /\ users[u].email # users[v].email

\* no request that would create a duplicate can be answered in any other way
\* than with a client error that changes no principal
C21_DuplicateRefused ==
    /\ \A n \in Usernames, e \in Emails, p \in NewPasswords :
          Held2(n, e) => ~ENABLED (register(n, e, p) /\ ~RefusedUnchanged)
    /\ \A t \in tokens, n \in Usernames, e \in Emails, p \in NewPasswords :
          Held2(n, e) => ~ENABLED (create_moderator(t, n, e, p) /\ ~RefusedUnchanged)
    /\ \A t \in tokens, d \in UserUpdates :
          WouldDuplicate(Subject(t), d) =>
              ~ENABLED (update_profile(t, d) /\ ~RefusedUnchanged)
    /\ \A t \in tokens, u \in UserIds, d \in UserUpdates :
          WouldDuplicate(u, d) => ~ENABLED (update_user(t, u, d) /\ ~RefusedUnchanged)

\* C21: after any sequence of register, create_moderator, update_profile and
\* update_user requests no two principals share a username and no two share an
\* email; a request that would create such a duplicate fails with a client error
\* and changes no principal.
C21_UniqueUsernameAndEmail == C21_Unique /\ C21_DuplicateRefused

\* C21 witness: with two principals in the table, an update_profile that asked
\* for a name or an email of the other one was refused with 400.
C21_Witness ==
    /\ Cardinality(DOMAIN users) = 2
    /\ resp.op = "update_profile" /\ resp.status = HTTP_400_BAD_REQUEST


\* the capability flags of a row
Flags(row) == <<row.is_active, row.is_admin, row.is_moderator>>

\* the request of the step passed get_admin_user
ByAdmin ==
    /\ resp'.sub \in DOMAIN users
    /\ users[resp'.sub].is_active /\ users[resp'.sub].is_admin

\* a step and what it does to the capability flags of the principals it keeps
C23_FlagsStep ==
    /\ resp'.op = "update_profile" =>
          /\ DOMAIN users' = DOMAIN users
          /\ \A u \in DOMAIN users : Flags(users'[u]) = Flags(users[u])
    /\ \A u \in DOMAIN users \cap DOMAIN users' :
          users'[u].is_active # users[u].is_active =>
              /\ resp'.op = "update_user" /\ resp'.status = HTTP_200_OK /\ resp'.uid = u
              /\ ByAdmin

\* no update_profile request that supplies is_active can change the caller's flag
C23_SuppliedFlagIgnored ==
    \A t \in tokens, d \in UserUpdates :
        ("is_active" \in d.fields /\ Subject(t) \in DOMAIN users) =>
            ~ENABLED (/\ update_profile(t, d)
                      /\ users'[Subject(t)].is_active # users[Subject(t)].is_active)

\* C23: update_profile never changes the calling principal's active flag, even
\* when the payload supplies is_active, and never changes its admin or moderator
\* flag; only update_user, behind the admin gate, changes a principal's active
\* flag.
C23_ProfileKeepsFlags == []C23_SuppliedFlagIgnored /\ [][C23_FlagsStep]_vars

\* C23 witness: an update_profile was answered 200 and its caller is active,
\* in a state where the caller may send update_profile with is_active = false
\* and be answered 200.
C23_Witness ==
    /\ resp.op = "update_profile" /\ resp.status = HTTP_200_OK
    /\ users[resp.uid].is_active
    /\ \E t \in tokens, d \in UserUpdates :
          /\ Subject(t) = resp.uid
          /\ "is_active" \in d.fields /\ ~d.is_active
          /\ ENABLED (update_profile(t, d) /\ resp'.status = HTTP_200_OK)

\* delete_user requests a state admits from a caller that passes get_admin_user:
\* the one for the caller's own id is refused with a client error, the one for
\* an id without row with not-found, and neither removes anything
C24_RefusedDeletes ==
    \A t \in tokens :
        get_admin_user(t).status = HTTP_200_OK =>
            /\ ~ENABLED (delete_user(t, get_admin_user(t).uid) /\ ~RefusedUnchanged)
            /\ \A u \in UserIds \ DOMAIN users :
                  ~ENABLED (/\ delete_user(t, u)
                            /\ ~(resp'.status = HTTP_404_NOT_FOUND /\ users' = users))

\* after a delete_user step the caller that passed the gate still has its row
C24_CallerKept ==
    (resp'.op = "delete_user" /\ ByAdmin) => resp'.sub \in DOMAIN users'

\* C24: delete_user called by an admin with their own id fails with a client
\* error and removes nothing; after any delete_user call the calling admin's
\* account still exists; a call for an id that does not exist fails with
\* not-found and removes nothing.
C24_AdminCannotDeleteSelf == []C24_RefusedDeletes /\ [][C24_CallerKept]_vars

\* C24 witness: with a second principal in the table, the admin's delete_user
\* for their own id was refused with 400.
C24_Witness ==
    /\ resp.op = "delete_user" /\ resp.status = HTTP_400_BAD_REQUEST
    /\ resp.uid = resp.sub
    /\ Cardinality(DOMAIN users) = 2

\* a step and what it does to the role flags
C26_RolesStep ==
    /\ \A u \in DOMAIN users \cap DOMAIN users' :
          /\ users'[u].is_admin = users[u].is_admin
          /\ users'[u].is_moderator = users[u].is_moderator
    /\ \A u \in DOMAIN users' \ DOMAIN users :
          /\ ~users'[u].is_admin
          /\ resp'.op = "register" => ~users'[u].is_moderator
          /\ users'[u].is_moderator => resp'.op = "create_moderator" /\ ByAdmin

\* the only admin is the one create_tables.py made, the row with id 1
C26_NoNewAdmin ==
    \A u \in DOMAIN users : users[u].is_admin => u = 1

\* C26: no sequence of API requests raises a principal's privileges outside the
\* admin gate: register creates a principal with admin and moderator false,
\* update_profile and update_user never change role flags, the moderator flag is
\* set only by create_moderator called by an admin, and no API operation sets
\* the admin flag.
C26_NoPrivilegeEscalation == []C26_NoNewAdmin /\ [][C26_RolesStep]_vars

\* C26 witness: an admin's create_moderator was answered 200 and made a
\* moderator that is no admin.
C26_Witness ==
    /\ resp.op = "create_moderator" /\ resp.status = HTTP_200_OK
    /\ users[resp.uid].is_moderator /\ ~users[resp.uid].is_admin


----------------------------------------------------------------------------
(* Claims about several requests through the language negotiator *)

\* the request being handled came with the lang parameter and the header of the
\* response that was kept
SameInputsAsServed ==
    /\ served # NoneServed
    /\ lang_pc # "idle"
    /\ request.query_params = served.query_params
    /\ request.headers = served.headers

\* C22: language negotiation depends only on the request's lang parameter and
\* header and on the static configuration: a request with the same parameter and
\* header as an earlier one gets the same active language, whatever requests
\* were handled before or between the two; the configuration never changes.
C22_SameInputsSameLanguage ==
    /\ SameInputsAsServed => request.state_language = served.language
    /\ settings \in Configs

\* C22 witness: a response served in a language other than the default was kept,
\* and a later request with the same parameter and header has been answered.
C22_Witness ==
    /\ SameInputsAsServed
    /\ lang_pc = "sent"
    /\ served.language # settings.default_language
    /\ request.content_language = served.language


----------------------------------------------------------------------------
(* Claims about contact inquiries *)

\* C25: after update_contact is applied with a non-empty admin_response the
\* contact has is_replied = true and a responded-at timestamp, whatever other
\* fields (is_replied included) the same payload carries.
C25_ReplyMarksReplied ==
    (/\ contact_resp.op = "update_contact" /\ contact_resp.status = HTTP_200_OK
     /\ "admin_response" \in contact_resp.update_data.fields
     /\ contact_resp.update_data.admin_response \notin {None, ""}) =>
        /\ contacts[contact_resp.id].is_replied
        /\ contacts[contact_resp.id].responded_at # NoTime

\* C27: for the resources handled by a "create or update" POST (anti-corruption
\* information, management system) at most one record is active after any
\* sequence of POST create-or-update and PUT update-by-id requests.
C27_AtMostOneActive ==
    /\ Cardinality(ActiveRows(anti_corruption)) <= 1
    /\ Cardinality(ActiveRows(management_systems)) <= 1

============================================================================
